---- MODULE Spec2Model ----
(***************************************************************************)
(* The SparkleCarrot schema validator (code_samples/schema_validator.py):  *)
(* the six validation rules, the SchemaValidator that runs them over the   *)
(* prims of a stage and accumulates issues and per-severity counts, its    *)
(* queries, and the command line entry point main().                       *)
(*                                                                         *)
(* A stage is the sequence of the paths of its prims in the order          *)
(* stage.Traverse() yields them; PrimAt gives the prim at a path.  Text    *)
(* built with f-strings is the sequence of its pieces.  The calls with an  *)
(* output argument are read as they are spelled: attr.Get(&value) reports  *)
(* whether the attribute holds a value and stores that value, and          *)
(* prim.GetAppliedSchemas(schemas) fills schemas with the applied schemas. *)
(***************************************************************************)
EXTENDS Integers, Sequences, FiniteSets, TLC

VARIABLES
    all_issues,     \* SchemaValidator.all_issues
    issue_counts,   \* SchemaValidator.issue_counts
    stage,          \* the stage given to the last validate_stage call
    rule_calls,     \* the <<prim path, rule_id>> pairs that call evaluated, in order
    prior,          \* what preceded the last validate_stage call on this validator
    op,             \* the last operation called
    args,           \* its arguments
    ret,            \* what it returned
    stdout,         \* the lines it printed
    written,        \* the text it wrote to its output path, <<>> if none
    pc,             \* position of the command line process
    app,            \* the DemoApplication of the LOD demo
    demo,           \* its VariantsDemo
    ui              \* its UI and the mouse as raylib reports it

vars == <<all_issues, issue_counts, stage, rule_calls, prior, op, args, ret, stdout, written, pc,
          app, demo, ui>>

(***************************************************************************)
(* Bounds of the model.                                                    *)
(***************************************************************************)
MaxPrims == 2

(***************************************************************************)
(* ValidationSeverity and ValidationIssue.                                 *)
(***************************************************************************)
\* a member of the enumeration: its name and its value
ERROR == [name |-> "ERROR", value |-> 0]
WARNING == [name |-> "WARNING", value |-> 1]
INFO == [name |-> "INFO", value |-> 2]

ValidationSeverity == <<ERROR, WARNING, INFO>>

Severities == {ValidationSeverity[i] : i \in 1..Len(ValidationSeverity)}

ValidationIssue(path, message, severity, rule_id, fix_description) ==
    [path |-> path, message |-> message, severity |-> severity,
     rule_id |-> rule_id, fix_description |-> fix_description]

\* ValidationIssue.__str__
IssueStr(issue) ==
    LET severity_str == CASE issue.severity = ERROR -> "ERROR"
                          [] issue.severity = WARNING -> "WARNING"
                          [] issue.severity = INFO -> "INFO"
        result == <<severity_str, " [", issue.rule_id, "] at ", issue.path, ": ">>
                      \o issue.message
    IN  IF issue.fix_description # <<>>
        THEN result \o <<"\n  Suggested fix: ">> \o issue.fix_description
        ELSE result

(***************************************************************************)
(* Characters of the attribute names, for startswith and the regular       *)
(* expression of the namespace rule.                                       *)
(***************************************************************************)
Lower == {"a","b","c","d","e","f","g","h","i","j","k","l","m",
     "n","o","p","q","r","s","t","u","v","w","x","y","z"}
Upper == {"A","B","C","D","E","F","G","H","I","J","K","L","M",
     "N","O","P","Q","R","S","T","U","V","W","X","Y","Z"}
Digit == {"0","1","2","3","4","5","6","7","8","9"}

Chars(name) ==
    CASE name = "sparkle:health:current" ->
           <<"s","p","a","r","k","l","e",":","h","e","a","l","t","h",":","c","u","r","r","e","n","t">>
      [] name = "sparkle:health:maximum" ->
           <<"s","p","a","r","k","l","e",":","h","e","a","l","t","h",":","m","a","x","i","m","u","m">>
      [] name = "sparkle:movement:speed" ->
           <<"s","p","a","r","k","l","e",":","m","o","v","e","m","e","n","t",":","s","p","e","e","d">>
      [] name = "sparkle:movement:pattern" ->
           <<"s","p","a","r","k","l","e",":","m","o","v","e","m","e","n","t",":","p","a","t","t","e","r","n">>
      [] name = "sparkle:ai:behavior" ->
           <<"s","p","a","r","k","l","e",":","a","i",":","b","e","h","a","v","i","o","r">>
      [] name = "sparkle:ai:detectionRadius" ->
           <<"s","p","a","r","k","l","e",":","a","i",":","d","e","t","e","c","t","i","o","n","R","a","d","i","u","s">>
      [] name = "sparkle:entity:id" ->
           <<"s","p","a","r","k","l","e",":","e","n","t","i","t","y",":","i","d">>
      [] name = "sparkle:BadName" ->
           <<"s","p","a","r","k","l","e",":","B","a","d","N","a","m","e">>
      [] name = "size" ->
           <<"s","i","z","e">>
      [] name = "sparkle:a:b_2" ->
           <<"s","p","a","r","k","l","e",":","a",":","b","_","2">>
      [] name = "sparkle:a1:x" ->
           <<"s","p","a","r","k","l","e",":","a","1",":","x">>
      [] name = "sparkle:a_b:c" ->
           <<"s","p","a","r","k","l","e",":","a","_","b",":","c">>
      [] name = "sparkle:a:b:c" ->
           <<"s","p","a","r","k","l","e",":","a",":","b",":","c">>
      [] name = "sparkle:a:_b" ->
           <<"s","p","a","r","k","l","e",":","a",":","_","b">>
      [] name = "Sparkle:a:b" ->
           <<"S","p","a","r","k","l","e",":","a",":","b">>
      [] name = "sparkle" ->
           <<"s","p","a","r","k","l","e">>
      [] name = "f01" ->
           <<"f","0","1">>
      [] name = "f02" ->
           <<"f","0","2">>
      [] name = "f03" ->
           <<"f","0","3">>
      [] name = "f04" ->
           <<"f","0","4">>
      [] name = "f05" ->
           <<"f","0","5">>
      [] name = "f06" ->
           <<"f","0","6">>
      [] name = "f07" ->
           <<"f","0","7">>
      [] name = "f08" ->
           <<"f","0","8">>
      [] name = "f09" ->
           <<"f","0","9">>
      [] name = "f10" ->
           <<"f","1","0">>
      [] name = "f11" ->
           <<"f","1","1">>
      [] name = "f12" ->
           <<"f","1","2">>
      [] name = "f13" ->
           <<"f","1","3">>
      [] name = "f14" ->
           <<"f","1","4">>
      [] name = "f15" ->
           <<"f","1","5">>
      [] name = "f16" ->
           <<"f","1","6">>
      [] name = "f17" ->
           <<"f","1","7">>
      [] name = "f18" ->
           <<"f","1","8">>
      [] name = "f19" ->
           <<"f","1","9">>
      [] name = "f20" ->
           <<"f","2","0">>
      [] name = "f21" ->
           <<"f","2","1">>
      [] name = "f22" ->
           <<"f","2","2">>
      [] name = "f23" ->
           <<"f","2","3">>
      [] name = "f24" ->
           <<"f","2","4">>
      [] name = "f25" ->
           <<"f","2","5">>
      [] name = "f26" ->
           <<"f","2","6">>
      [] name = "f27" ->
           <<"f","2","7">>
      [] name = "f28" ->
           <<"f","2","8">>
      [] name = "f29" ->
           <<"f","2","9">>
      [] name = "f30" ->
           <<"f","3","0">>
      [] name = "f31" ->
           <<"f","3","1">>
      [] name = "f32" ->
           <<"f","3","2">>
      [] name = "f33" ->
           <<"f","3","3">>
      [] name = "f34" ->
           <<"f","3","4">>
      [] name = "f35" ->
           <<"f","3","5">>
      [] name = "f36" ->
           <<"f","3","6">>
      [] name = "f37" ->
           <<"f","3","7">>
      [] name = "f38" ->
           <<"f","3","8">>
      [] name = "f39" ->
           <<"f","3","9">>
      [] name = "f40" ->
           <<"f","4","0">>
      [] name = "f41" ->
           <<"f","4","1">>
      [] name = "f42" ->
           <<"f","4","2">>
      [] name = "f43" ->
           <<"f","4","3">>
      [] name = "f44" ->
           <<"f","4","4">>
      [] name = "f45" ->
           <<"f","4","5">>
      [] name = "f46" ->
           <<"f","4","6">>
      [] name = "f47" ->
           <<"f","4","7">>
      [] name = "f48" ->
           <<"f","4","8">>
      [] name = "f49" ->
           <<"f","4","9">>
      [] name = "f50" ->
           <<"f","5","0">>
      [] name = "f51" ->
           <<"f","5","1">>
      [] OTHER -> <<>>

StartsWith(cs, prefix) ==
    /\ Len(cs) >= Len(prefix)
    /\ SubSeq(cs, 1, Len(prefix)) = prefix

\* [a-zA-Z0-9] in the place of [a-zA-Z]
IsLetterOrDigit(c) == c \in Lower \cup Upper \cup Digit

IsLetter(c) == c \in Lower \cup Upper

IsWord(c) == c \in Lower \cup Upper \cup Digit \cup {"_"}

\* the length of the longest run of letters of cs that starts at position i
RECURSIVE LetterRun(_, _)
LetterRun(cs, i) ==
    IF i <= Len(cs) /\ IsLetter(cs[i]) THEN 1 + LetterRun(cs, i + 1) ELSE 0

SparklePrefix == <<"s","p","a","r","k","l","e",":">>

\* re.compile(r'^sparkle:[a-zA-Z]+:[a-zA-Z][a-zA-Z0-9_]*$').match
NamespacePatternMatch(cs) ==
    /\ StartsWith(cs, SparklePrefix)
    /\ LET first == Len(SparklePrefix) + 1
           n == LetterRun(cs, first)
           colon == first + n
       IN  /\ n >= 1
           /\ colon <= Len(cs)
           /\ cs[colon] = ":"
           /\ colon + 1 <= Len(cs)
           /\ IsLetter(cs[colon + 1])
           /\ \A k \in (colon + 2)..Len(cs) : IsWord(cs[k])

(***************************************************************************)
(* The scene graph the validator reads: prims with a path, a type, applied *)
(* API schemas, attributes and relationships.                              *)
(***************************************************************************)
Float == "float"
Token == "token"
Matrix4d == "matrix4d"
String == "string"

Attr(name, typeName, authored, num, tok) ==
    [name |-> name, typeName |-> typeName, authored |-> authored, num |-> num, tok |-> tok]

FloatAttr(name, value) == Attr(name, Float, TRUE, value, "")

TokenAttr(name, value) == Attr(name, Token, TRUE, 0, value)

Prim(path, valid, abstract, typeName, schemas, attrs, rels) ==
    [path |-> path, valid |-> valid, abstract |-> abstract, typeName |-> typeName,
     schemas |-> schemas, attrs |-> attrs, rels |-> rels]

\* an enemy whose current health exceeds its maximum
EnemyPrim ==
    Prim("/World/Enemy", TRUE, FALSE, "SparkleEnemyCarrot",
         <<"SparkleHealthAPI", "SparkleCombatAPI", "SparkleAIAPI">>,
         <<FloatAttr("sparkle:health:current", 150), FloatAttr("sparkle:health:maximum", 100),
           TokenAttr("sparkle:ai:behavior", "aggressive")>>,
         <<>>)

\* a player that moves too fast, has no movement pattern and no health component
PlayerPrim ==
    Prim("/World/Player", TRUE, FALSE, "SparklePlayer",
         <<"SparkleMovementAPI">>,
         <<FloatAttr("sparkle:movement:speed", 150)>>,
         <<>>)

\* a pickup without an id and with a badly named attribute
PickupPrim ==
    Prim("/World/Pickup", TRUE, FALSE, "SparklePickup",
         <<>>,
         <<FloatAttr("sparkle:BadName", 1), FloatAttr("size", 2)>>,
         <<>>)

\* an abstract prim (a class) that would fail the health rule
ClassPrim ==
    Prim("/_class_Enemy", TRUE, TRUE, "SparkleEnemyCarrot",
         <<"SparkleHealthAPI">>,
         <<FloatAttr("sparkle:health:current", -5)>>,
         <<>>)

\* an expired prim handle that would fail the namespace and the entity type rule
ExpiredPrim ==
    Prim("/World/Expired", FALSE, FALSE, "SparklePickup",
         <<>>,
         <<FloatAttr("sparkle:BadName", 1)>>,
         <<>>)

\* the prims a stage of the model is made of
StagePrims == <<EnemyPrim, PlayerPrim, PickupPrim, ClassPrim, ExpiredPrim>>

Paths == {StagePrims[i].path : i \in 1..Len(StagePrims)}

PrimAt(path) == StagePrims[CHOOSE i \in 1..Len(StagePrims) : StagePrims[i].path = path]

\* the stages: up to MaxPrims prims, no path twice, in any traversal order
Stages ==
    UNION {{s \in [1..n -> Paths] : \A i, j \in 1..n : s[i] = s[j] => i = j} : n \in 0..MaxPrims}

\* stage.Traverse()
Traverse(s) == [i \in 1..Len(s) |-> PrimAt(s[i])]

IsValid(prim) == prim.valid

IsAbstract(prim) == prim.abstract

GetPath(prim) == prim.path

GetAppliedSchemas(prim) == prim.schemas

GetAttributes(prim) == prim.attrs

\* prim.GetAttribute(name): the attribute, or an invalid handle
GetAttribute(prim, name) ==
    IF \E i \in 1..Len(prim.attrs) : prim.attrs[i].name = name
    THEN [valid |-> TRUE,
          attr |-> prim.attrs[CHOOSE i \in 1..Len(prim.attrs) : prim.attrs[i].name = name]]
    ELSE [valid |-> FALSE]

\* a relationship handle that is valid whether or not the prim has the relationship
GetRelationshipAlwaysValid(prim, name) == TRUE

\* prim.GetRelationship(name): whether the handle is valid
GetRelationship(prim, name) == \E i \in 1..Len(prim.rels) : prim.rels[i] = name

\* attr.Get(&value) into a float
GetFloat(attr) == [ok |-> attr.authored, value |-> attr.num]

\* attr.Get(&value) into a token
GetToken(attr) == [ok |-> attr.authored, value |-> attr.tok]

\* prim.IsA(Tf.Type.FindByName(typeName))
IsA(prim, typeName) == prim.typeName = typeName

In(x, list) == \E i \in 1..Len(list) : list[i] = x

\* ', '.join(list)
RECURSIVE Join(_, _)
Join(sep, list) ==
    IF Len(list) = 0 THEN <<>>
    ELSE IF Len(list) = 1 THEN <<list[1]>>
    ELSE <<list[1], sep>> \o Join(sep, Tail(list))

(***************************************************************************)
(* The six rules.  Each validate gives the list of issues of one prim.     *)
(***************************************************************************)
NAMESPACE_RULE_ID == "SCHEMA_NAMESPACE_001"
HEALTH_RULE_ID == "HEALTH_COMP_001"
MOVEMENT_RULE_ID == "MOVEMENT_COMP_001"
AI_RULE_ID == "AI_COMP_001"
PERF_RULE_ID == "PERF_001"
\* the entity type rule registered under the id of the health rule
EntityRuleIdOfHealth == "HEALTH_COMP_001"

ENTITY_RULE_ID == "ENTITY_TYPE_001"

\* NamespaceValidationRule.validate: whether the loop appends an issue for an attribute,
\* one whose name starts with "sparkle:" and does not match namespace_pattern
NamespaceFlagged(attr) ==
    /\ StartsWith(Chars(attr.name), SparklePrefix)
    /\ ~NamespacePatternMatch(Chars(attr.name))

\* the issue the loop appends for an attribute of that name
NamespaceIssue(prim, name) ==
    ValidationIssue(
        GetPath(prim),
        <<"Attribute '", name, "' does not follow namespace convention">>,
        ERROR,
        NAMESPACE_RULE_ID,
        <<"Rename to follow pattern 'sparkle:category:name'">>)

\* NamespaceValidationRule.validate: the issues of the flagged attributes, in the order
\* of prim.GetAttributes()
NamespaceValidate(prim) ==
    LET flagged == SelectSeq(GetAttributes(prim), NamespaceFlagged)
    IN  [k \in 1..Len(flagged) |-> NamespaceIssue(prim, flagged[k].name)]

\* required_attrs with a minimum that 0 does not reach
HealthRequiredAttrsAboveZero ==
    <<[name |-> "sparkle:health:current", type |-> Float, min |-> 1],
      [name |-> "sparkle:health:maximum", type |-> Float, min |-> 1]>>

HealthRequiredAttrs ==
    <<[name |-> "sparkle:health:current", type |-> Float, min |-> 0],
      [name |-> "sparkle:health:maximum", type |-> Float, min |-> 0]>>

\* one turn of the loop over required_attrs that checks the value only when the type is right
HealthRequiredTypeFirst(prim, req) ==
    LET attr_name == req.name
        h == GetAttribute(prim, attr_name)
    IN  IF ~h.valid
        THEN <<ValidationIssue(
                 GetPath(prim),
                 <<"Health component missing required attribute '", attr_name, "'">>,
                 ERROR,
                 HEALTH_RULE_ID,
                 <<"Add attribute '", attr_name, "' with appropriate value">>)>>
        ELSE IF h.attr.typeName # req.type
        THEN <<ValidationIssue(
                 GetPath(prim),
                 <<"Attribute '", attr_name, "' has incorrect type '", h.attr.typeName,
                   "', expected '", req.type, "'">>,
                 ERROR,
                 HEALTH_RULE_ID,
                 <<"Change attribute type to '", req.type, "'">>)>>
        ELSE IF GetFloat(h.attr).ok /\ GetFloat(h.attr).value < req.min
        THEN <<ValidationIssue(
                 GetPath(prim),
                 <<"Attribute '", attr_name, "' value ", ToString(GetFloat(h.attr).value),
                   " is less than minimum ", ToString(req.min)>>,
                 ERROR,
                 HEALTH_RULE_ID,
                 <<"Set value to at least ", ToString(req.min)>>)>>
        ELSE <<>>

\* HealthComponentValidationRule.validate: one turn of the loop over required_attrs
HealthRequired(prim, req) ==
    LET attr_name == req.name
        h == GetAttribute(prim, attr_name)
    IN  IF ~h.valid
        THEN <<ValidationIssue(
                 GetPath(prim),
                 <<"Health component missing required attribute '", attr_name, "'">>,
                 ERROR,
                 HEALTH_RULE_ID,
                 <<"Add attribute '", attr_name, "' with appropriate value">>)>>
        ELSE (IF h.attr.typeName # req.type
              THEN <<ValidationIssue(
                       GetPath(prim),
                       <<"Attribute '", attr_name, "' has incorrect type '", h.attr.typeName,
                         "', expected '", req.type, "'">>,
                       ERROR,
                       HEALTH_RULE_ID,
                       <<"Change attribute type to '", req.type, "'">>)>>
              ELSE <<>>)
             \o
             (IF GetFloat(h.attr).ok /\ GetFloat(h.attr).value < req.min
              THEN <<ValidationIssue(
                       GetPath(prim),
                       <<"Attribute '", attr_name, "' value ", ToString(GetFloat(h.attr).value),
                         " is less than minimum ", ToString(req.min)>>,
                       ERROR,
                       HEALTH_RULE_ID,
                       <<"Set value to at least ", ToString(req.min)>>)>>
              ELSE <<>>)

\* the check of current against maximum that also refuses current = maximum
HealthRelationAtLeast(prim) ==
    LET current_health == GetAttribute(prim, "sparkle:health:current")
        max_health == GetAttribute(prim, "sparkle:health:maximum")
    IN  IF current_health.valid /\ max_health.valid
        THEN LET c == GetFloat(current_health.attr)
                 m == GetFloat(max_health.attr)
             IN  IF c.ok /\ m.ok /\ c.value >= m.value
                 THEN <<ValidationIssue(
                          GetPath(prim),
                          <<"Current health (", ToString(c.value),
                            ") exceeds maximum health (", ToString(m.value), ")">>,
                          ERROR,
                          HEALTH_RULE_ID,
                          <<"Reduce current health to be less than or equal to maximum health">>)>>
                 ELSE <<>>
        ELSE <<>>

\* HealthComponentValidationRule.validate: the check of current against maximum
HealthRelation(prim) ==
    LET current_health == GetAttribute(prim, "sparkle:health:current")
        max_health == GetAttribute(prim, "sparkle:health:maximum")
    IN  IF current_health.valid /\ max_health.valid
        THEN LET c == GetFloat(current_health.attr)
                 m == GetFloat(max_health.attr)
             IN  IF c.ok /\ m.ok /\ c.value > m.value
                 THEN <<ValidationIssue(
                          GetPath(prim),
                          <<"Current health (", ToString(c.value),
                            ") exceeds maximum health (", ToString(m.value), ")">>,
                          ERROR,
                          HEALTH_RULE_ID,
                          <<"Reduce current health to be less than or equal to maximum health">>)>>
                 ELSE <<>>
        ELSE <<>>

\* validate without the test on the applied schemas
HealthValidateUnconditional(prim) ==
    HealthRequired(prim, HealthRequiredAttrs[1])
        \o HealthRequired(prim, HealthRequiredAttrs[2])
        \o HealthRelation(prim)

HealthValidate(prim) ==
    IF ~In("SparkleHealthAPI", GetAppliedSchemas(prim)) THEN <<>>
    ELSE HealthRequired(prim, HealthRequiredAttrs[1])
         \o HealthRequired(prim, HealthRequiredAttrs[2])
         \o HealthRelation(prim)

\* a limit that 100 itself already exceeds
SpeedLimitBelowHundred == 100 - 1

MaxReasonableSpeed == 100

\* the allowed patterns as a match that ignores case would take them
AllowedPatternsAnyCase ==
    <<"direct", "patrol", "Patrol", "wander", "charge", "flee", "stationary">>

AllowedPatterns == <<"direct", "patrol", "wander", "charge", "flee", "stationary">>

\* the speed check that takes a missing speed attribute for nothing to report
MovementSpeedSilentWhenMissing(prim) ==
    LET speed_attr == GetAttribute(prim, "sparkle:movement:speed")
    IN  IF ~speed_attr.valid THEN <<>>
        ELSE LET speed == GetFloat(speed_attr.attr)
             IN  IF speed.ok /\ speed.value < 0
                 THEN <<ValidationIssue(
                          GetPath(prim),
                          <<"Movement speed (", ToString(speed.value), ") cannot be negative">>,
                          ERROR,
                          MOVEMENT_RULE_ID,
                          <<"Set speed to a non-negative value">>)>>
                 ELSE IF speed.ok /\ speed.value > MaxReasonableSpeed
                 THEN <<ValidationIssue(
                          GetPath(prim),
                          <<"Movement speed (", ToString(speed.value),
                            ") exceeds maximum reasonable value (100)">>,
                          WARNING,
                          MOVEMENT_RULE_ID,
                          <<"Consider reducing speed unless extreme speed is intentional">>)>>
                 ELSE <<>>

\* MovementComponentValidationRule.validate: the speed attribute
MovementSpeed(prim) ==
    LET speed_attr == GetAttribute(prim, "sparkle:movement:speed")
    IN  IF ~speed_attr.valid
        THEN <<ValidationIssue(
                 GetPath(prim),
                 <<"Movement component missing required attribute 'sparkle:movement:speed'">>,
                 ERROR,
                 MOVEMENT_RULE_ID,
                 <<"Add 'sparkle:movement:speed' attribute with appropriate value">>)>>
        ELSE LET speed == GetFloat(speed_attr.attr)
             IN  IF speed.ok /\ speed.value < 0
                 THEN <<ValidationIssue(
                          GetPath(prim),
                          <<"Movement speed (", ToString(speed.value), ") cannot be negative">>,
                          ERROR,
                          MOVEMENT_RULE_ID,
                          <<"Set speed to a non-negative value">>)>>
                 ELSE IF speed.ok /\ speed.value > MaxReasonableSpeed
                 THEN <<ValidationIssue(
                          GetPath(prim),
                          <<"Movement speed (", ToString(speed.value),
                            ") exceeds maximum reasonable value (100)">>,
                          WARNING,
                          MOVEMENT_RULE_ID,
                          <<"Consider reducing speed unless extreme speed is intentional">>)>>
                 ELSE <<>>

\* MovementComponentValidationRule.validate: the pattern attribute
MovementPattern(prim) ==
    LET pattern_attr == GetAttribute(prim, "sparkle:movement:pattern")
    IN  IF ~pattern_attr.valid
        THEN <<ValidationIssue(
                 GetPath(prim),
                 <<"Movement component missing required attribute 'sparkle:movement:pattern'">>,
                 WARNING,
                 MOVEMENT_RULE_ID,
                 <<"Add 'sparkle:movement:pattern' attribute with appropriate value">>)>>
        ELSE LET pattern == GetToken(pattern_attr.attr)
             IN  IF pattern.ok /\ ~In(pattern.value, AllowedPatterns)
                 THEN <<ValidationIssue(
                          GetPath(prim),
                          <<"Movement pattern '", pattern.value,
                            "' is not one of the allowed values: ">>
                              \o Join(", ", AllowedPatterns),
                          ERROR,
                          MOVEMENT_RULE_ID,
                          <<"Set pattern to one of: ">> \o Join(", ", AllowedPatterns))>>
                 ELSE <<>>

MovementValidate(prim) ==
    IF ~In("SparkleMovementAPI", GetAppliedSchemas(prim)) THEN <<>>
    ELSE MovementSpeed(prim) \o MovementPattern(prim)

\* the movement patterns taken for the allowed behaviors
AllowedBehaviorsOfMovement == <<"direct", "patrol", "wander", "charge", "flee", "stationary">>

AllowedBehaviors == <<"passive", "defensive", "aggressive", "neutral", "flee">>

\* AiComponentValidationRule.validate: the behavior attribute
AiBehavior(prim) ==
    LET behavior_attr == GetAttribute(prim, "sparkle:ai:behavior")
    IN  IF ~behavior_attr.valid
        THEN <<ValidationIssue(
                 GetPath(prim),
                 <<"AI component missing required attribute 'sparkle:ai:behavior'">>,
                 ERROR,
                 AI_RULE_ID,
                 <<"Add 'sparkle:ai:behavior' attribute with appropriate value">>)>>
        ELSE LET behavior == GetToken(behavior_attr.attr)
             IN  IF behavior.ok /\ ~In(behavior.value, AllowedBehaviors)
                 THEN <<ValidationIssue(
                          GetPath(prim),
                          <<"AI behavior '", behavior.value,
                            "' is not one of the allowed values: ">>
                              \o Join(", ", AllowedBehaviors),
                          ERROR,
                          AI_RULE_ID,
                          <<"Set behavior to one of: ">> \o Join(", ", AllowedBehaviors))>>
                 ELSE <<>>

\* AiComponentValidationRule.validate: the detection radius attribute
AiRadius(prim) ==
    LET radius_attr == GetAttribute(prim, "sparkle:ai:detectionRadius")
    IN  IF radius_attr.valid
           /\ GetFloat(radius_attr.attr).ok /\ GetFloat(radius_attr.attr).value < 0
        THEN <<ValidationIssue(
                 GetPath(prim),
                 <<"AI detection radius (", ToString(GetFloat(radius_attr.attr).value),
                   ") cannot be negative">>,
                 ERROR,
                 AI_RULE_ID,
                 <<"Set detection radius to a non-negative value">>)>>
        ELSE <<>>

\* AiComponentValidationRule.validate: patrol path consistency
AiPatrol(prim) ==
    LET movement_pattern_attr == GetAttribute(prim, "sparkle:movement:pattern")
    IN  IF GetRelationship(prim, "sparkle:ai:patrolPath")
           /\ movement_pattern_attr.valid
           /\ GetToken(movement_pattern_attr.attr).ok
           /\ GetToken(movement_pattern_attr.attr).value # "patrol"
        THEN <<ValidationIssue(
                 GetPath(prim),
                 <<"AI has patrol path but movement pattern is '",
                   GetToken(movement_pattern_attr.attr).value, "' instead of 'patrol'">>,
                 WARNING,
                 AI_RULE_ID,
                 <<"Change movement pattern to 'patrol' to match patrol path relationship">>)>>
        ELSE <<>>

AiValidate(prim) ==
    IF ~In("SparkleAIAPI", GetAppliedSchemas(prim)) THEN <<>>
    ELSE AiBehavior(prim) \o AiRadius(prim) \o AiPatrol(prim)

MaxSchemas == 10
\* a limit that 50 attributes already exceed
AttributeLimitBelowFifty == 50 - 1

MaxAttributes == 50
MaxExpensive == 10

ExpensiveTypes == <<Matrix4d, String>>

\* PerformanceValidationRule.validate
PerformanceValidate(prim) ==
    LET schemas == GetAppliedSchemas(prim)
        attrs == GetAttributes(prim)
        expensive_count ==
            Cardinality({i \in 1..Len(attrs) : In(attrs[i].typeName, ExpensiveTypes)})
    IN  (IF Len(schemas) > MaxSchemas
         THEN <<ValidationIssue(
                  GetPath(prim),
                  <<"Prim has excessive number of API schemas applied (",
                    ToString(Len(schemas)), ")">>,
                  WARNING,
                  PERF_RULE_ID,
                  <<"Consider consolidating functionality to reduce schema count">>)>>
         ELSE <<>>)
        \o
        (IF Len(attrs) > MaxAttributes
         THEN <<ValidationIssue(
                  GetPath(prim),
                  <<"Prim has excessive number of attributes (", ToString(Len(attrs)), ")">>,
                  WARNING,
                  PERF_RULE_ID,
                  <<"Consider refactoring to reduce attribute count">>)>>
         ELSE <<>>)
        \o
        (IF expensive_count > MaxExpensive
         THEN <<ValidationIssue(
                  GetPath(prim),
                  <<"Prim has many attributes with expensive data types (",
                    ToString(expensive_count), ")">>,
                  WARNING,
                  PERF_RULE_ID,
                  <<"Consider using more efficient data types where possible">>)>>
         ELSE <<>>)

\* EntityTypeValidationRule._validate_enemy and _validate_player: the loop over expected_schemas
RECURSIVE ExpectedSchemasLoop(_, _, _, _)
ExpectedSchemasLoop(prim, kind, expected_schemas, issues) ==
    IF expected_schemas = <<>> THEN issues
    ELSE LET schema == Head(expected_schemas)
         IN  ExpectedSchemasLoop(prim, kind, Tail(expected_schemas),
                 IF ~In(schema, GetAppliedSchemas(prim))
                 THEN Append(issues, ValidationIssue(
                          GetPath(prim),
                          <<kind, " is missing recommended schema: ", schema>>,
                          WARNING,
                          ENTITY_RULE_ID,
                          <<"Apply ", schema, " to this ", kind, " entity">>))
                 ELSE issues)

\* _validate_enemy that does not expect the combat schema
ValidateEnemyWithoutCombat(prim) ==
    ExpectedSchemasLoop(prim, "Enemy", <<"SparkleHealthAPI", "SparkleAIAPI">>, <<>>)

ValidateEnemy(prim) ==
    ExpectedSchemasLoop(prim, "Enemy",
                        <<"SparkleHealthAPI", "SparkleCombatAPI", "SparkleAIAPI">>, <<>>)

\* _validate_player that reports a missing schema as a piece of information
ValidatePlayerAsInfo(prim) ==
    LET issues == ExpectedSchemasLoop(prim, "Player",
                                      <<"SparkleHealthAPI", "SparkleMovementAPI">>, <<>>)
    IN  [i \in 1..Len(issues) |-> [issues[i] EXCEPT !.severity = INFO]]

ValidatePlayer(prim) ==
    ExpectedSchemasLoop(prim, "Player", <<"SparkleHealthAPI", "SparkleMovementAPI">>, <<>>)

\* _validate_pickup that checks what a player is checked for
ValidatePickupAsPlayer(prim) == ValidatePlayer(prim)

ValidatePickup(prim) ==
    IF ~GetAttribute(prim, "sparkle:entity:id").valid
    THEN <<ValidationIssue(
             GetPath(prim),
             <<"Pickup is missing required 'sparkle:entity:id' attribute">>,
             ERROR,
             ENTITY_RULE_ID,
             <<"Add 'sparkle:entity:id' attribute with unique ID">>)>>
    ELSE <<>>

\* EntityTypeValidationRule.validate: the checks the if/elif chain hands the prim to
EntityTypeChecks(prim) ==
    IF IsA(prim, "SparkleEnemyCarrot") THEN <<"_validate_enemy">>
    ELSE IF IsA(prim, "SparklePlayer") THEN <<"_validate_player">>
    ELSE IF IsA(prim, "SparklePickup") THEN <<"_validate_pickup">>
    ELSE <<>>

\* EntityTypeValidationRule.validate
EntityTypeValidate(prim) ==
    IF IsA(prim, "SparkleEnemyCarrot") THEN ValidateEnemy(prim)
    ELSE IF IsA(prim, "SparklePlayer") THEN ValidatePlayer(prim)
    ELSE IF IsA(prim, "SparklePickup") THEN ValidatePickup(prim)
    ELSE <<>>

(***************************************************************************)
(* SchemaValidator.  A validator value v holds all_issues and              *)
(* issue_counts, and calls: the rule evaluations of the running            *)
(* validate_stage call, which the model records and the code does not.     *)
(***************************************************************************)
\* an Optional argument: <<>> is None, <<x>> is x
None == <<>>

Some(x) == <<x>>

\* SchemaValidator.__init__: self.rules, by the rule's class
Rules == <<"Namespace", "Health", "Movement", "Ai", "Performance", "EntityType">>

\* the rule_id each rule's __init__ passes to ValidationRule.__init__
RuleId(rule) ==
    CASE rule = "Namespace" -> NAMESPACE_RULE_ID
      [] rule = "Health" -> HEALTH_RULE_ID
      [] rule = "Movement" -> MOVEMENT_RULE_ID
      [] rule = "Ai" -> AI_RULE_ID
      [] rule = "Performance" -> PERF_RULE_ID
      [] rule = "EntityType" -> ENTITY_RULE_ID

\* rule.validate(stage, prim)
RuleValidate(rule, prim) ==
    CASE rule = "Namespace" -> NamespaceValidate(prim)
      [] rule = "Health" -> HealthValidate(prim)
      [] rule = "Movement" -> MovementValidate(prim)
      [] rule = "Ai" -> AiValidate(prim)
      [] rule = "Performance" -> PerformanceValidate(prim)
      [] rule = "EntityType" -> EntityTypeValidate(prim)

\* the rules hold no state and only read the prim: what each returns for each prim
RuleIssues == [p \in Paths |-> [r \in 1..Len(Rules) |-> RuleValidate(Rules[r], PrimAt(p))]]

ZeroCounts == [s \in Severities |-> 0]

\* SchemaValidator.__init__: the issue trackers
NewValidator == [all_issues |-> <<>>, issue_counts |-> ZeroCounts, calls |-> <<>>]

\* the reset forgets to empty all_issues
ResetKeepsIssues(v) == [v EXCEPT !.issue_counts = ZeroCounts, !.calls = <<>>]

\* the reset forgets to zero issue_counts
ResetKeepsCounts(v) == [v EXCEPT !.all_issues = <<>>, !.calls = <<>>]

\* the reset zeroes the counters of the warnings and infos only
ResetKeepsErrorCount(v) ==
    [all_issues |-> <<>>,
     issue_counts |-> [ZeroCounts EXCEPT ![ERROR] = v.issue_counts[ERROR]],
     calls |-> <<>>]

\* validate_stage: the reset of the trackers
ResetTrackers(v) == [all_issues |-> <<>>, issue_counts |-> ZeroCounts, calls |-> <<>>]

\* the counter is bumped once for a rule's issues, not once for each
UpdateCountsOnce(counts, issues) ==
    IF issues = <<>> THEN counts ELSE [counts EXCEPT ![Head(issues).severity] = @ + 1]

\* _validate_prim: for issue in issues: self.issue_counts[issue.severity] += 1
RECURSIVE UpdateCounts(_, _)
UpdateCounts(counts, issues) ==
    IF issues = <<>> THEN counts
    ELSE UpdateCounts([counts EXCEPT ![Head(issues).severity] = @ + 1], Tail(issues))

\* _validate_prim: what one rule's issues do to the trackers
Accumulate(v, issues) ==
    IF issues # <<>>
    THEN [v EXCEPT !.all_issues = v.all_issues \o issues,
                   !.issue_counts = UpdateCounts(v.issue_counts, issues)]
    ELSE v

\* _validate_prim: the loop over self.rules, from rule i on
RECURSIVE ValidatePrimLoop(_, _, _)
ValidatePrimLoop(v, prim, i) ==
    IF i > Len(Rules) THEN v
    ELSE LET issues == RuleIssues[GetPath(prim)][i]
             called == [v EXCEPT !.calls = Append(v.calls, <<GetPath(prim), RuleId(Rules[i])>>)]
         IN  ValidatePrimLoop(Accumulate(called, issues), prim, i + 1)

ValidatePrim(v, prim) == ValidatePrimLoop(v, prim, 1)

\* abstract prims are validated too
ShouldValidateAbstract(prim) == IsValid(prim)

\* validate_stage: if prim.IsValid() and not prim.IsAbstract()
ShouldValidate(prim) == IsValid(prim) /\ ~IsAbstract(prim)

\* validate_stage: the loop over stage.Traverse(), from prim i on
RECURSIVE TraverseLoop(_, _, _)
TraverseLoop(v, prims, i) ==
    IF i > Len(prims) THEN v
    ELSE TraverseLoop(IF ShouldValidate(prims[i]) THEN ValidatePrim(v, prims[i]) ELSE v,
                      prims, i + 1)

\* validate_stage on validator v
ValidateStage(v, s) == TraverseLoop(ResetTrackers(v), Traverse(s), 1)

\* get_summary
GetSummary(v) ==
    <<"Validation complete: ",
      ToString(v.issue_counts[ERROR]), " errors, ",
      ToString(v.issue_counts[WARNING]), " warnings, ",
      ToString(v.issue_counts[INFO]), " info">>

\* the filter is ignored
PrintedUnfiltered(issue, severity_filter) == TRUE

\* print_issues: if severity_filter is None or issue.severity == severity_filter
Printed(issue, severity_filter) ==
    severity_filter = None \/ issue.severity = severity_filter[1]

\* print_issues: the lines the loop over self.all_issues prints, from issue i on
RECURSIVE PrintIssuesLoop(_, _, _)
PrintIssuesLoop(issues, severity_filter, i) ==
    IF i > Len(issues) THEN <<>>
    ELSE (IF Printed(issues[i], severity_filter) THEN <<IssueStr(issues[i])>> ELSE <<>>)
         \o PrintIssuesLoop(issues, severity_filter, i + 1)

PrintIssues(v, severity_filter) == PrintIssuesLoop(v.all_issues, severity_filter, 1)

\* any issue counts as an error
HasErrorsAnyIssue(v) == Len(v.all_issues) > 0

\* has_errors
HasErrors(v) == v.issue_counts[ERROR] > 0

(***************************************************************************)
(* generate_report: the report, and json.dump and json.load as the         *)
(* sequence of tokens of the text and its parse.                           *)
(***************************************************************************)
\* the severity is written as the member's value, not its name
ReportIssueSeverityValue(issue) ==
    [path |-> <<issue.path>>,
     message |-> issue.message,
     severity |-> <<ToString(issue.severity.value)>>,
     rule_id |-> <<issue.rule_id>>,
     fix_description |-> issue.fix_description]

\* generate_report: the record of one issue
ReportIssue(issue) ==
    [path |-> <<issue.path>>,
     message |-> issue.message,
     severity |-> <<issue.severity.name>>,
     rule_id |-> <<issue.rule_id>>,
     fix_description |-> issue.fix_description]

\* the report lists the errors only
ReportErrorsOnly(v) ==
    [summary |-> [errors |-> v.issue_counts[ERROR],
                  warnings |-> v.issue_counts[WARNING],
                  info |-> v.issue_counts[INFO],
                  total |-> Len(v.all_issues)],
     issues |-> LET errors == SelectSeq(v.all_issues, LAMBDA x : x.severity = ERROR)
                IN  [i \in 1..Len(errors) |-> ReportIssue(errors[i])]]

\* generate_report: the report dictionary
Report(v) ==
    [summary |-> [errors |-> v.issue_counts[ERROR],
                  warnings |-> v.issue_counts[WARNING],
                  info |-> v.issue_counts[INFO],
                  total |-> Len(v.all_issues)],
     issues |-> [i \in 1..Len(v.all_issues) |-> ReportIssue(v.all_issues[i])]]

Punct(c) == [k |-> c, s |-> <<>>, n |-> 0]

Key(name) == [k |-> "key", s |-> <<name>>, n |-> 0]

Str(text) == [k |-> "str", s |-> text, n |-> 0]

Num(n) == [k |-> "num", s |-> <<>>, n |-> n]

Null == [k |-> "null", s |-> <<>>, n |-> 0]

\* a string value, or null for None
OptStr(text) == IF text = <<>> THEN Null ELSE Str(text)

DumpSummary(summary) ==
    <<Punct("{"), Key("errors"), Num(summary.errors), Key("warnings"), Num(summary.warnings),
      Key("info"), Num(summary.info), Key("total"), Num(summary.total), Punct("}")>>

DumpIssue(r) ==
    <<Punct("{"), Key("path"), Str(r.path), Key("message"), Str(r.message),
      Key("severity"), Str(r.severity), Key("rule_id"), Str(r.rule_id),
      Key("fix_description"), OptStr(r.fix_description), Punct("}")>>

RECURSIVE DumpIssues(_)
DumpIssues(rs) == IF rs = <<>> THEN <<>> ELSE DumpIssue(Head(rs)) \o DumpIssues(Tail(rs))

\* json.dump(report, f, indent=2)
JsonDump(report) ==
    <<Punct("{"), Key("summary")>> \o DumpSummary(report.summary)
        \o <<Key("issues"), Punct("[")>> \o DumpIssues(report.issues)
        \o <<Punct("]"), Punct("}")>>

\* json.load: the value that starts at token i, and the position after it
RECURSIVE ParseValue(_, _)
RECURSIVE ParseMembers(_, _, _)
RECURSIVE ParseElements(_, _, _)
ParseValue(toks, i) ==
    CASE toks[i].k = "num" -> [val |-> toks[i].n, next |-> i + 1]
      [] toks[i].k = "str" -> [val |-> toks[i].s, next |-> i + 1]
      [] toks[i].k = "null" -> [val |-> <<>>, next |-> i + 1]
      [] toks[i].k = "{" -> ParseMembers(toks, i + 1, <<>>)
      [] toks[i].k = "[" -> ParseElements(toks, i + 1, <<>>)

ParseMembers(toks, i, obj) ==
    IF toks[i].k = "}" THEN [val |-> obj, next |-> i + 1]
    ELSE LET v == ParseValue(toks, i + 1)
         IN  ParseMembers(toks, v.next, (toks[i].s[1] :> v.val) @@ obj)

ParseElements(toks, i, list) ==
    IF toks[i].k = "]" THEN [val |-> list, next |-> i + 1]
    ELSE LET v == ParseValue(toks, i)
         IN  ParseElements(toks, v.next, Append(list, v.val))

JsonLoad(toks) == ParseValue(toks, 1).val

\* generate_report(output_path): the files it writes
GenerateReport(v, output_path) ==
    <<[path |-> output_path, content |-> JsonDump(Report(v))]>>

(***************************************************************************)
(* The validator as a library: one SchemaValidator object and the calls a  *)
(* program makes on it.                                                    *)
(***************************************************************************)
Validator == [all_issues |-> all_issues, issue_counts |-> issue_counts, calls |-> rule_calls]

SeverityFilters == {None} \cup {Some(s) : s \in Severities}

OutputPaths == {"report.json"}

\* the validator runs without the LOD demo
NoDemo == app = None /\ demo = None /\ ui = None

Init ==
    /\ all_issues = NewValidator.all_issues
    /\ issue_counts = NewValidator.issue_counts
    /\ rule_calls = <<>>
    /\ stage = <<>>
    /\ prior = [runs |-> 0, same |-> FALSE, errs |-> FALSE]
    /\ op = "__init__"
    /\ args = <<>>
    /\ ret = None
    /\ stdout = <<>>
    /\ written = <<>>
    /\ pc = "library"
    /\ NoDemo

\* a query that empties the issue list it has read
QueryConsuming(name, arguments, result, lines, files) ==
    /\ pc = "library"
    /\ op' = name
    /\ args' = arguments
    /\ ret' = result
    /\ stdout' = lines
    /\ written' = files
    /\ all_issues' = <<>>
    /\ UNCHANGED <<issue_counts, stage, rule_calls, prior, pc, app, demo, ui>>

\* a call that only reads the validator: what it is given, returns, prints and writes
Query(name, arguments, result, lines, files) ==
    /\ pc = "library"
    /\ op' = name
    /\ args' = arguments
    /\ ret' = result
    /\ stdout' = lines
    /\ written' = files
    /\ UNCHANGED <<all_issues, issue_counts, stage, rule_calls, prior, pc, app, demo, ui>>

validate_stage(s) ==
    LET v == ValidateStage(Validator, s)
    IN  /\ pc = "library"
        /\ all_issues' = v.all_issues
        /\ issue_counts' = v.issue_counts
        /\ rule_calls' = v.calls
        /\ stage' = s
        /\ prior' = [runs |-> IF prior.runs = 0 THEN 1 ELSE 2,
                     same |-> prior.runs > 0 /\ stage = s,
                     errs |-> issue_counts[ERROR] > 0]
        /\ op' = "validate_stage"
        /\ args' = <<>>
        /\ ret' = v.all_issues
        /\ stdout' = <<>>
        /\ written' = <<>>
        /\ UNCHANGED <<pc, app, demo, ui>>

get_summary == Query("get_summary", <<>>, GetSummary(Validator), <<>>, <<>>)

print_issues(severity_filter) ==
    Query("print_issues", severity_filter, None, PrintIssues(Validator, severity_filter), <<>>)

has_errors == Query("has_errors", <<>>, HasErrors(Validator), <<>>, <<>>)

generate_report(output_path) ==
    Query("generate_report", output_path, None, <<>>, GenerateReport(Validator, output_path))

Next ==
    \/ \E s \in Stages : validate_stage(s)
    \/ get_summary
    \/ \E f \in SeverityFilters : print_issues(f)
    \/ has_errors
    \/ \E p \in OutputPaths : generate_report(p)

Spec == Init /\ [][Next]_vars

(***************************************************************************)
(* The command line: one run of main() on a scene file that is missing,    *)
(* cannot be opened as a stage, or holds a stage.                          *)
(***************************************************************************)
UsdFile(path, exists, opens, s) ==
    [path |-> path, exists |-> exists, opens |-> opens, stage |-> s]

UsdFiles ==
    {UsdFile("missing.usda", FALSE, FALSE, <<>>), UsdFile("broken.usda", TRUE, FALSE, <<>>)}
        \cup {UsdFile("scene.usda", TRUE, TRUE, s) : s \in Stages}

InitMain ==
    /\ all_issues = <<>>
    /\ issue_counts = ZeroCounts
    /\ rule_calls = <<>>
    /\ stage = <<>>
    /\ prior = [runs |-> 0, same |-> FALSE, errs |-> FALSE]
    /\ op = "main"
    /\ args = <<>>
    /\ ret = None
    /\ stdout = <<>>
    /\ written = <<>>
    /\ pc = "start"
    /\ NoDemo

\* main() when the file is missing or the stage does not open
MainFails(message, usd_file) ==
    /\ stdout' = <<<<message, usd_file.path>>>>
    /\ written' = <<>>
    /\ ret' = 1
    /\ UNCHANGED <<all_issues, issue_counts, rule_calls, stage, prior, app, demo, ui>>

\* the exit code tells whether any issue was found
MainValidatesExitAnyIssue(s, report, errors_only) ==
    LET v == ValidateStage(NewValidator, s)
        severity_filter == IF errors_only THEN Some(ERROR) ELSE None
    IN  /\ all_issues' = v.all_issues
        /\ issue_counts' = v.issue_counts
        /\ rule_calls' = v.calls
        /\ stage' = s
        /\ prior' = [runs |-> 1, same |-> FALSE, errs |-> FALSE]
        /\ stdout' = <<GetSummary(v)>>
                        \o PrintIssues(v, severity_filter)
                        \o (IF report # None
                            THEN <<<<"Detailed report written to: ", report[1]>>>>
                            ELSE <<>>)
        /\ written' = IF report # None THEN GenerateReport(v, report[1]) ELSE <<>>
        /\ ret' = IF v.all_issues # <<>> THEN 1 ELSE 0
        /\ UNCHANGED <<app, demo, ui>>

\* main() from the creation of the validator on
MainValidates(s, report, errors_only) ==
    LET v == ValidateStage(NewValidator, s)
        severity_filter == IF errors_only THEN Some(ERROR) ELSE None
    IN  /\ all_issues' = v.all_issues
        /\ issue_counts' = v.issue_counts
        /\ rule_calls' = v.calls
        /\ stage' = s
        /\ prior' = [runs |-> 1, same |-> FALSE, errs |-> FALSE]
        /\ stdout' = <<GetSummary(v)>>
                        \o PrintIssues(v, severity_filter)
                        \o (IF report # None
                            THEN <<<<"Detailed report written to: ", report[1]>>>>
                            ELSE <<>>)
        /\ written' = IF report # None THEN GenerateReport(v, report[1]) ELSE <<>>
        /\ ret' = IF HasErrors(v) THEN 1 ELSE 0
        /\ UNCHANGED <<app, demo, ui>>

\* the result of Usd.Stage.Open is not checked
MainOpenUnchecked(usd_file, report, errors_only) ==
    /\ pc = "start"
    /\ pc' = "exited"
    /\ op' = "main"
    /\ args' = [usd_file |-> usd_file, report |-> report, errors_only |-> errors_only]
    /\ IF ~usd_file.exists THEN MainFails("Error: File not found: ", usd_file)
       ELSE MainValidates(usd_file.stage, report, errors_only)

main(usd_file, report, errors_only) ==
    /\ pc = "start"
    /\ pc' = "exited"
    /\ op' = "main"
    /\ args' = [usd_file |-> usd_file, report |-> report, errors_only |-> errors_only]
    /\ IF ~usd_file.exists THEN MainFails("Error: File not found: ", usd_file)
       ELSE IF ~usd_file.opens THEN MainFails("Error: Failed to open USD stage: ", usd_file)
       ELSE MainValidates(usd_file.stage, report, errors_only)

Reports == {None} \cup {Some(p) : p \in OutputPaths}

NextMain ==
    \E usd_file \in UsdFiles, report \in Reports, errors_only \in BOOLEAN :
        main(usd_file, report, errors_only)

SpecMain == InitMain /\ [][NextMain]_vars

(***************************************************************************)
(* One rule applied to one node, outside the validator: the nodes are      *)
(* drawn from families that vary what each rule reads.                     *)
(***************************************************************************)
MaxNamespaceAttrs == 2

NodePath == "/World/Node"

Node(typeName, schemas, attrs, rels) == Prim(NodePath, TRUE, FALSE, typeName, schemas, attrs, rels)

\* a numeric attribute of a node: absent, declared with a type and holding a value, or
\* declared without any value (Get fails)
NumericOptions(name, types, values) ==
    {<<>>} \cup {<<Attr(name, t, TRUE, v, "")>> : t \in types, v \in values}
           \cup {<<Attr(name, Float, FALSE, 0, "")>>}

\* a token attribute of a node: absent, holding a value, or declared without any value
TokenOptions(name, values) ==
    {<<>>} \cup {<<TokenAttr(name, v)>> : v \in values}
           \cup {<<Attr(name, Token, FALSE, 0, "")>>}

\* the elements of list that are in keep, in the order of list
Picked(list, keep) == SelectSeq(list, LAMBDA x : x \in keep)

HealthValues == {-5, -1, 0, 100, 150}

HealthPrims ==
    {Node("Xform", schemas, c \o m, <<>>) :
        schemas \in {<<>>, <<"SparkleHealthAPI">>},
        c \in NumericOptions("sparkle:health:current", {Float, "double"}, HealthValues),
        m \in NumericOptions("sparkle:health:maximum", {Float, "double"}, HealthValues)}

SpeedValues == {-1, 0, 100, 101, 150}

PatternValues == {"patrol", "Patrol", "stationary", "fly"}

MovementPrims ==
    {Node("Xform", schemas, s \o p, <<>>) :
        schemas \in {<<>>, <<"SparkleMovementAPI">>},
        s \in NumericOptions("sparkle:movement:speed", {Float}, SpeedValues),
        p \in TokenOptions("sparkle:movement:pattern", PatternValues)}

BehaviorValues == {"aggressive", "Aggressive", "flee", "patrol"}

RadiusValues == {-1, 0, 5}

AiPrims ==
    {Node("Xform", schemas, b \o r \o p, rels) :
        schemas \in {<<>>, <<"SparkleAIAPI">>},
        b \in TokenOptions("sparkle:ai:behavior", BehaviorValues),
        r \in NumericOptions("sparkle:ai:detectionRadius", {Float}, RadiusValues),
        p \in TokenOptions("sparkle:movement:pattern", {"patrol", "Patrol", "wander"}),
        rels \in {<<>>, <<"sparkle:ai:patrolPath">>}}

\* attribute names: two that follow the convention, five prefixed 'sparkle:' that do not,
\* three without the prefix
NamespaceNames ==
    {"sparkle:health:current", "sparkle:a:b_2",
     "sparkle:BadName", "sparkle:a1:x", "sparkle:a_b:c", "sparkle:a:b:c", "sparkle:a:_b",
     "Sparkle:a:b", "sparkle", "size"}

\* nodes with up to MaxNamespaceAttrs attributes of different names, in any order
NamespacePrims ==
    {Node("Xform", <<>>, [i \in 1..Len(names) |-> FloatAttr(names[i], 1)], <<>>) :
        names \in UNION {{q \in [1..n -> NamespaceNames] : \A i, j \in 1..n : q[i] = q[j] => i = j}
                         : n \in 0..MaxNamespaceAttrs}}

TagNames ==
    <<"Tag01API", "Tag02API", "Tag03API", "Tag04API", "Tag05API",
      "Tag06API", "Tag07API", "Tag08API", "Tag09API", "Tag10API", "Tag11API">>

FillerNames ==
    <<"f01", "f02", "f03", "f04", "f05", "f06", "f07", "f08", "f09", "f10",
      "f11", "f12", "f13", "f14", "f15", "f16", "f17", "f18", "f19", "f20",
      "f21", "f22", "f23", "f24", "f25", "f26", "f27", "f28", "f29", "f30",
      "f31", "f32", "f33", "f34", "f35", "f36", "f37", "f38", "f39", "f40",
      "f41", "f42", "f43", "f44", "f45", "f46", "f47", "f48", "f49", "f50",
      "f51">>

\* n attributes of which the first expensive are 4x4 matrices and strings in turn
FillerAttrs(n, expensive) ==
    [i \in 1..n |-> Attr(FillerNames[i],
                         IF i > expensive THEN Float ELSE IF i % 2 = 1 THEN Matrix4d ELSE String,
                         TRUE, 0, "")]

\* nodes with as many tags, attributes and expensive attributes as each threshold
\* allows, with one more, and with fewer
PerformancePrims ==
    {Node("Xform", SubSeq(TagNames, 1, t), FillerAttrs(n, e), <<>>) :
        t \in {0, MaxSchemas, MaxSchemas + 1},
        n \in {MaxExpensive + 1, MaxAttributes, MaxAttributes + 1},
        e \in {0, MaxExpensive, MaxExpensive + 1}}
    \cup {Node("Xform", <<>>, FillerAttrs(n, n), <<>>) : n \in {0, MaxExpensive}}

EntityTypes == {"SparkleEnemyCarrot", "SparklePlayer", "SparklePickup", "Xform"}

EntitySchemas == <<"SparkleHealthAPI", "SparkleCombatAPI", "SparkleAIAPI", "SparkleMovementAPI">>

EntityPrims ==
    {Node(t, Picked(EntitySchemas, keep), id, <<>>) :
        t \in EntityTypes,
        keep \in SUBSET {EntitySchemas[i] : i \in 1..Len(EntitySchemas)},
        id \in {<<>>, <<Attr("sparkle:entity:id", String, TRUE, 0, "gem")>>}}

RulePrims ==
    HealthPrims \cup MovementPrims \cup AiPrims \cup NamespacePrims
        \cup PerformancePrims \cup EntityPrims

\* a node is at hand and no rule has been called yet
InitRules ==
    /\ all_issues = <<>>
    /\ issue_counts = ZeroCounts
    /\ rule_calls = <<>>
    /\ stage = <<>>
    /\ prior = [runs |-> 0, same |-> FALSE, errs |-> FALSE]
    /\ op = "__init__"
    /\ args \in RulePrims
    /\ ret = None
    /\ stdout = <<>>
    /\ written = <<>>
    /\ pc = "rules"
    /\ NoDemo

\* rule.validate(stage, prim): the rule reads the prim and returns its issues; rule_calls
\* records the checks the entity type rule hands the prim to
validate(rule) ==
    /\ pc = "rules"
    /\ op' = rule
    /\ ret' = RuleValidate(rule, args)
    /\ rule_calls' = IF rule = "EntityType" THEN EntityTypeChecks(args) ELSE <<>>
    /\ pc' = "returned"
    /\ UNCHANGED <<all_issues, issue_counts, stage, prior, args, stdout, written, app, demo, ui>>

NextRules == \E r \in 1..Len(Rules) : validate(Rules[r])

SpecRules == InitRules /\ [][NextRules]_vars
(***************************************************************************)
(* What the properties compare the validator with: the issues of a stage   *)
(* written out from the rules, without the validator's loops.              *)
(***************************************************************************)
CountOf(issues, severity) ==
    Cardinality({i \in 1..Len(issues) : issues[i].severity = severity})

(***************************************************************************)
(* The LOD demo (code_samples/usd_lod_demo): the DemoApplication and the   *)
(* demos it runs.  A demo object is known by the order of its creation;    *)
(* app.instances holds the objects created so far and app.log the calls    *)
(* made on them, in order.  pc is "setup" until run() is called, "running" *)
(* inside its loop and "closed" once it has returned.                      *)
(***************************************************************************)
MaxDemos == 3

DemoNames == {"Variants", "Payloads"}

DemoClasses == {"VariantsDemo", "PayloadsDemo"}

\* the names a caller may ask for: the ones above and one that is never registered
AskedNames == DemoNames \cup {"Missing"}

\* Demo.__init__
NewDemo(demo_class) == [demo_class |-> demo_class, initialized |-> FALSE, cleanups |-> 0]

\* DemoApplication.__init__
NewDemoApplication ==
    [running |-> FALSE, demos |-> <<>>, current_demo |-> None, current_demo_name |-> None,
     instances |-> <<>>, log |-> <<>>]

\* name in self.demos
Registered(self, name) == \E k \in 1..Len(self.demos) : self.demos[k].name = name

\* self.demos[name]
DemoClassOf(self, name) ==
    LET k == CHOOSE k \in 1..Len(self.demos) : self.demos[k].name = name
    IN  self.demos[k].demo_class

\* self.demos[name] = demo_class: a new key goes last, a known key keeps its place
RegisterDemo(self, name, demo_class) ==
    IF Registered(self, name)
    THEN [self EXCEPT !.demos = [k \in 1..Len(@) |->
                                    IF @[k].name = name
                                    THEN [name |-> name, demo_class |-> demo_class]
                                    ELSE @[k]]]
    ELSE [self EXCEPT !.demos = Append(@, [name |-> name, demo_class |-> demo_class])]

Logged(self, call, id) == [self EXCEPT !.log = Append(@, [call |-> call, demo |-> id])]

\* self.current_demo.cleanup(), if there is a current demo
CleanupCurrent(self) ==
    IF self.current_demo # None
    THEN LET id == self.current_demo[1]
         IN  Logged([self EXCEPT !.instances[id].cleanups = @ + 1], "cleanup", id)
    ELSE self

\* self.current_demo = demo_class(self); self.current_demo_name = name
CreateDemo(self, name) ==
    LET id == Len(self.instances) + 1
    IN  Logged([self EXCEPT !.instances = Append(@, NewDemo(DemoClassOf(self, name))),
                            !.current_demo = Some(id),
                            !.current_demo_name = Some(name)],
               "__init__", id)

\* self.current_demo.initialize()
InitializeCurrent(self) ==
    LET id == self.current_demo[1]
    IN  Logged([self EXCEPT !.instances[id].initialized = TRUE], "initialize", id)

\* a selection that leaves the previous demo as it is
SelectDemoKeepingPrevious(self, name) ==
    IF ~Registered(self, name)
    THEN [self |-> self, out |-> <<<<"Demo '", name, "' not found">>>>]
    ELSE [self |-> InitializeCurrent(CreateDemo(self, name)),
          out |-> <<<<"Initializing demo: ", name>>>>]

\* DemoApplication.select_demo: the application after the call and the lines printed
SelectDemo(self, name) ==
    IF ~Registered(self, name)
    THEN [self |-> self, out |-> <<<<"Demo '", name, "' not found">>>>]
    ELSE [self |-> InitializeCurrent(CreateDemo(CleanupCurrent(self), name)),
          out |-> <<<<"Initializing demo: ", name>>>>]

\* the application is built and nothing is registered yet
InitApp ==
    /\ all_issues = <<>>
    /\ issue_counts = ZeroCounts
    /\ rule_calls = <<>>
    /\ stage = <<>>
    /\ prior = [runs |-> 0, same |-> FALSE, errs |-> FALSE]
    /\ op = "__init__"
    /\ args = <<>>
    /\ ret = None
    /\ stdout = <<>>
    /\ written = <<>>
    /\ pc = "setup"
    /\ app = NewDemoApplication
    /\ demo = None
    /\ ui = None

\* what the application's steps leave alone
AppFrame == UNCHANGED <<all_issues, issue_counts, rule_calls, stage, prior, ret, written, demo, ui>>

\* one more demo object can be created within the bound
CanCreate == Len(app.instances) < MaxDemos

register_demo(name, demo_class) ==
    /\ pc = "setup"
    /\ op' = "register_demo"
    /\ args' = <<name>>
    /\ app' = RegisterDemo(app, name, demo_class)
    /\ stdout' = <<>>
    /\ UNCHANGED pc
    /\ AppFrame

\* select_demo called by the program before run()
select_demo(name) ==
    /\ pc = "setup"
    /\ Registered(app, name) => CanCreate
    /\ op' = "select_demo"
    /\ args' = <<name>>
    /\ app' = SelectDemo(app, name).self
    /\ stdout' = SelectDemo(app, name).out
    /\ UNCHANGED pc
    /\ AppFrame

\* run() up to its loop: the first registered demo is selected when none is current
run ==
    LET started == [app EXCEPT !.running = TRUE]
        first == started.demos[1].name
        selects == started.demos # <<>> /\ started.current_demo = None
    IN  /\ pc = "setup"
        /\ selects => CanCreate
        /\ pc' = "running"
        /\ op' = "run"
        /\ args' = <<>>
        /\ app' = IF selects THEN SelectDemo(started, first).self ELSE started
        /\ stdout' = IF selects THEN SelectDemo(started, first).out ELSE <<>>
        /\ AppFrame

\* one pass of the loop of run(): _update, the drawing and _render_ui, where a click on
\* the button of a registered demo selects it
frame(clicked) ==
    /\ pc = "running"
    /\ clicked # None => Registered(app, clicked[1]) /\ CanCreate
    /\ op' = "frame"
    /\ args' = clicked
    /\ app' = IF clicked # None THEN SelectDemo(app, clicked[1]).self ELSE app
    /\ stdout' = IF clicked # None THEN SelectDemo(app, clicked[1]).out ELSE <<>>
    /\ UNCHANGED pc
    /\ AppFrame

\* the window is to close or self.running is off: run() leaves its loop, cleans up the
\* current demo and closes the window
close ==
    /\ pc = "running"
    /\ pc' = "closed"
    /\ op' = "close"
    /\ args' = <<>>
    /\ app' = CleanupCurrent(app)
    /\ stdout' = <<>>
    /\ AppFrame

NextApp ==
    \/ \E name \in DemoNames, demo_class \in DemoClasses : register_demo(name, demo_class)
    \/ \E name \in AskedNames : select_demo(name)
    \/ run
    \/ \E clicked \in {None} \cup {Some(name) : name \in DemoNames} : frame(clicked)
    \/ close

SpecApp == InitApp /\ [][NextApp]_vars

(***************************************************************************)
(* The VariantsDemo: one demo object from its creation to its cleanup.     *)
(* Distances and thresholds are whole metres.  The enemy prim is known by  *)
(* its complexityLOD variant set: the names of its variants and the one    *)
(* selected.  What the widgets of the UI hand back to render_ui is an      *)
(* input of the step: a slider gives a value of its range, a click lands   *)
(* on at most one widget.                                                  *)
(***************************************************************************)
\* float('inf'): a distance beyond every threshold
Infinity == 1000

LodNames == <<"high", "medium", "low">>

\* the values a threshold slider gives back, within its range of 1.0 to 30.0
ThresholdValues == {1, 5, 10, 30}

\* where the camera may be: between, on and beyond the thresholds, or the prim is not found
Distances == {0, 4, 5, 7, 10, 30, Infinity}

\* the widget a released mouse button lands on, if any
Clicks == {"none", "auto_lod", "HIGH", "MEDIUM", "LOW"}

\* VariantsDemo.__init__
NewVariantsDemo ==
    [initialized |-> FALSE, stage |-> None, enemy_prim |-> None, camera_distance |-> 10,
     current_lod |-> "high", auto_lod |-> TRUE,
     lod_thresholds |-> [high |-> 5, medium |-> 10, low |-> 20]]

InSeq(x, s) == \E k \in 1..Len(s) : s[k] = x

\* UsdHelpers.create_variant_set: the variants are added, the default is selected if it is
\* one of them
CreateVariantSet(variants, default_variant) ==
    [names |-> variants,
     selection |-> IF InSeq(default_variant, variants) THEN default_variant ELSE ""]

\* UsdHelpers.set_variant_selection: the prim's variant set after the call and the result
SetVariantSelection(variant_set, variant_name) ==
    IF ~InSeq(variant_name, variant_set.names)
    THEN [variant_set |-> variant_set, ok |-> FALSE]
    ELSE [variant_set |-> [variant_set EXCEPT !.selection = variant_name], ok |-> TRUE]

\* VariantsDemo.create_enemy
CreateEnemy ==
    SetVariantSelection(CreateVariantSet(LodNames, "high"), "high").variant_set

\* a choice that takes a distance equal to a threshold as below it
LodAtOrBelow(thresholds, distance) ==
    IF distance <= thresholds.high THEN "high"
    ELSE IF distance <= thresholds.medium THEN "medium"
    ELSE "low"

\* the level of detail update chooses for a camera distance
LodForDistance(thresholds, distance) ==
    IF distance < thresholds.high THEN "high"
    ELSE IF distance < thresholds.medium THEN "medium"
    ELSE "low"

\* self.current_lod = lod_name; UsdHelpers.set_variant_selection(self.enemy_prim, ...)
SelectLod(self, lod_name) ==
    [self EXCEPT !.current_lod = lod_name,
                 !.enemy_prim = Some(SetVariantSelection(@[1], lod_name).variant_set)]

\* VariantsDemo.initialize
Initialize(self) ==
    IF self.initialized THEN self
    ELSE [self EXCEPT !.stage = Some("/Root"),
                      !.enemy_prim = Some(CreateEnemy),
                      !.initialized = TRUE]

\* VariantsDemo.update
Update(self, distance) ==
    LET measured == [self EXCEPT !.camera_distance = distance]
        new_lod == LodForDistance(measured.lod_thresholds, measured.camera_distance)
    IN  IF measured.auto_lod /\ new_lod # measured.current_lod
        THEN SelectLod(measured, new_lod)
        ELSE measured

\* lod_name.upper(), the label of the button of a level of detail
ButtonLabel(lod_name) ==
    CASE lod_name = "high" -> "HIGH"
      [] lod_name = "medium" -> "MEDIUM"
      [] lod_name = "low" -> "LOW"

\* the manual selection of render_ui: the buttons are there when auto LOD is off
ManualSelection(self, click) ==
    IF ~self.auto_lod /\ \E k \in 1..Len(LodNames) : click = ButtonLabel(LodNames[k])
    THEN SelectLod(self, LodNames[CHOOSE k \in 1..Len(LodNames) : click = ButtonLabel(LodNames[k])])
    ELSE self

\* VariantsDemo.render_ui
RenderUi(self, threshold_high, threshold_medium, click) ==
    LET slid == [self EXCEPT !.lod_thresholds.high = threshold_high,
                             !.lod_thresholds.medium = threshold_medium]
        checked == [slid EXCEPT !.auto_lod = IF click = "auto_lod" THEN ~@ ELSE @]
    IN  ManualSelection(checked, click)

\* VariantsDemo.cleanup
Cleanup(self) == [self EXCEPT !.stage = None, !.enemy_prim = None]

InitVariants ==
    /\ all_issues = <<>>
    /\ issue_counts = ZeroCounts
    /\ rule_calls = <<>>
    /\ stage = <<>>
    /\ prior = [runs |-> 0, same |-> FALSE, errs |-> FALSE]
    /\ op = "__init__"
    /\ args = <<>>
    /\ ret = None
    /\ stdout = <<>>
    /\ written = <<>>
    /\ pc = "created"
    /\ app = None
    /\ demo = NewVariantsDemo
    /\ ui = None

\* what the demo's steps leave alone
DemoFrame ==
    UNCHANGED <<all_issues, issue_counts, rule_calls, stage, prior, ret, stdout, written, app, ui>>

initialize ==
    /\ pc \in {"created", "initialized"}
    /\ pc' = "initialized"
    /\ op' = "initialize"
    /\ args' = <<>>
    /\ demo' = Initialize(demo)
    /\ DemoFrame

update(distance) ==
    /\ pc = "initialized"
    /\ op' = "update"
    /\ args' = <<distance>>
    /\ demo' = Update(demo, distance)
    /\ UNCHANGED pc
    /\ DemoFrame

render_ui(threshold_high, threshold_medium, click) ==
    /\ pc = "initialized"
    /\ op' = "render_ui"
    /\ args' = <<click>>
    /\ demo' = RenderUi(demo, threshold_high, threshold_medium, click)
    /\ UNCHANGED pc
    /\ DemoFrame

cleanup ==
    /\ pc = "initialized"
    /\ pc' = "cleaned"
    /\ op' = "cleanup"
    /\ args' = <<>>
    /\ demo' = Cleanup(demo)
    /\ DemoFrame

NextVariants ==
    \/ initialize
    \/ \E distance \in Distances : update(distance)
    \/ \E threshold_high \in ThresholdValues, threshold_medium \in ThresholdValues,
          click \in Clicks : render_ui(threshold_high, threshold_medium, click)
    \/ cleanup

SpecVariants == InitVariants /\ [][NextVariants]_vars

(***************************************************************************)
(* The immediate-mode UI: one UI object and the frames DemoApplication     *)
(* draws with it.  A frame is begin_frame, the widgets, end_frame; the     *)
(* widgets drawn are the sliders below, whose ranges are chosen so that    *)
(* every value a mouse position gives is a whole number.  raylib reports   *)
(* the mouse position and the left button; the button is pressed in the    *)
(* frame it goes down and released in the frame it goes up.  prior keeps   *)
(* what the mouse did: whether the button was down in the frame before,    *)
(* the slider on whose knob it went down, and for how many frames it has   *)
(* been held since.                                                        *)
(***************************************************************************)
MaxHeld == 2

\* the slider calls of a frame: id_str, x, y, width, height, min_val, max_val, default_val
Sliders ==
    <<[id_str |-> "threshold_high", x |-> 2, y |-> 10, width |-> 10, height |-> 2,
       min_val |-> 0, max_val |-> 20, default_val |-> Some(4)],
      [id_str |-> "threshold_medium", x |-> 2, y |-> 30, width |-> 10, height |-> 2,
       min_val |-> 0, max_val |-> 20, default_val |-> None]>>

\* where the mouse may be: left of, on and right of the sliders, on their rows or off them
MouseXs == {0, 2, 4, 7, 12, 15}

MouseYs == {10, 30, 50}

\* UI.__init__
NewUI ==
    [hot_item |-> None, active_item |-> None, mouse_pos |-> <<0, 0>>,
     was_mouse_pressed |-> FALSE, dragging_slider |-> None, slider_values |-> <<>>]

\* what raylib reports in a frame
Mouse(x, y, down, was_down) ==
    [x |-> x, y |-> y, down |-> down,
     pressed |-> down /\ ~was_down, released |-> ~down /\ was_down]

\* UI.is_point_in_rect
IsPointInRect(x, y, rect_x, rect_y, rect_width, rect_height) ==
    /\ x >= rect_x
    /\ x <= rect_x + rect_width
    /\ y >= rect_y
    /\ y <= rect_y + rect_height

\* f"slider_{id_str}"
SliderId(id_str) == <<"slider_", id_str>>

\* UI.begin_frame
BeginFrame(self, mouse) ==
    LET cleared == [self EXCEPT !.mouse_pos = <<mouse.x, mouse.y>>, !.hot_item = None]
    IN  IF mouse.pressed
        THEN [cleared EXCEPT !.active_item = cleared.hot_item, !.was_mouse_pressed = TRUE]
        ELSE IF mouse.released
        THEN [cleared EXCEPT !.was_mouse_pressed = FALSE,
                             !.dragging_slider = IF @ # None THEN None ELSE @]
        ELSE cleared

\* UI.end_frame
EndFrame(self, mouse) ==
    IF mouse.released THEN [self EXCEPT !.active_item = None] ELSE self

\* the value a slider holds, once it has one
StoredValue(self, s) ==
    IF s.id_str \in DOMAIN self.slider_values THEN self.slider_values[s.id_str]
    ELSE IF s.default_val # None THEN s.default_val[1]
    ELSE s.min_val

\* int(x + normalized_value * width)
KnobPos(s, value) == s.x + ((value - s.min_val) * s.width) \div (s.max_val - s.min_val)

\* the mouse is over the knob of a slider holding value
MouseOverKnob(self, s, value) ==
    IsPointInRect(self.mouse_pos[1], self.mouse_pos[2],
                  KnobPos(s, value) - s.height, s.y - s.height \div 2,
                  s.height * 2, s.height * 2)

\* max(0, min(1, (mouse_x - x) / width)), in pixels of the slider's width
ClampedOffset(s, mouse_x) ==
    IF mouse_x - s.x < 0 THEN 0
    ELSE IF mouse_x - s.x > s.width THEN s.width
    ELSE mouse_x - s.x

\* min_val + normalized_pos * (max_val - min_val)
ValueAt(s, mouse_x) ==
    s.min_val + (ClampedOffset(s, mouse_x) * (s.max_val - s.min_val)) \div s.width

\* UI.slider
Slider(self, s, mouse) ==
    LET slider_id == SliderId(s.id_str)
        value == StoredValue(self, s)
        stored == [self EXCEPT !.slider_values =
                      [k \in DOMAIN @ \cup {s.id_str} |-> IF k = s.id_str THEN value ELSE @[k]]]
        hot == IF MouseOverKnob(stored, s, value)
               THEN [stored EXCEPT !.hot_item = Some(slider_id)]
               ELSE stored
        drag == IF hot.active_item = Some(slider_id) /\ mouse.down
                THEN [hot EXCEPT !.dragging_slider = Some(slider_id)]
                ELSE hot
    IN  IF drag.dragging_slider = Some(slider_id)
        THEN [drag EXCEPT !.slider_values[s.id_str] = ValueAt(s, drag.mouse_pos[1])]
        ELSE drag

RECURSIVE DrawSliders(_, _, _)
\* the slider calls of a frame, in order
DrawSliders(self, sliders, mouse) ==
    IF sliders = <<>> THEN self
    ELSE DrawSliders(Slider(self, Head(sliders), mouse), Tail(sliders), mouse)

\* DemoApplication._render_ui
RenderUiFrame(self, mouse) ==
    EndFrame(DrawSliders(BeginFrame(self, mouse), Sliders, mouse), mouse)

\* the slider on whose knob the mouse is when the frame starts, if any
KnobUnder(self, mouse) ==
    LET at == [self EXCEPT !.mouse_pos = <<mouse.x, mouse.y>>]
        over == {k \in 1..Len(Sliders) : MouseOverKnob(at, Sliders[k], StoredValue(at, Sliders[k]))}
    IN  IF over = {} THEN None ELSE Some(Sliders[CHOOSE k \in over : TRUE].id_str)

\* what the mouse has done up to and including this frame
MouseHistory(before, self, mouse) ==
    IF mouse.pressed THEN [down |-> TRUE, grabbed |-> KnobUnder(self, mouse), held |-> 0]
    ELSE IF mouse.down
    THEN [down |-> TRUE, grabbed |-> before.grabbed,
          held |-> IF before.held < MaxHeld THEN before.held + 1 ELSE before.held]
    ELSE [down |-> FALSE, grabbed |-> None, held |-> 0]

InitUI ==
    /\ all_issues = <<>>
    /\ issue_counts = ZeroCounts
    /\ rule_calls = <<>>
    /\ stage = <<>>
    /\ prior = [down |-> FALSE, grabbed |-> None, held |-> 0]
    /\ op = "__init__"
    /\ args = Mouse(0, 0, FALSE, FALSE)
    /\ ret = None
    /\ stdout = <<>>
    /\ written = <<>>
    /\ pc = "frames"
    /\ app = None
    /\ demo = None
    /\ ui = NewUI

\* one frame of the UI; args is what raylib reports in it
draw_frame(x, y, down) ==
    LET mouse == Mouse(x, y, down, prior.down)
    IN  /\ pc = "frames"
        /\ op' = "_render_ui"
        /\ args' = mouse
        /\ ui' = RenderUiFrame(ui, mouse)
        /\ prior' = MouseHistory(prior, ui, mouse)
        /\ UNCHANGED <<all_issues, issue_counts, rule_calls, stage, ret, stdout, written,
                       pc, app, demo>>

NextUI == \E x \in MouseXs, y \in MouseYs, down \in BOOLEAN : draw_frame(x, y, down)

SpecUI == InitUI /\ [][NextUI]_vars

\* the six rules' results for one prim, in registration order
NodeIssues(prim) ==
    NamespaceValidate(prim) \o HealthValidate(prim) \o MovementValidate(prim)
        \o AiValidate(prim) \o PerformanceValidate(prim) \o EntityTypeValidate(prim)

NodeCalls(prim) ==
    <<<<prim.path, "SCHEMA_NAMESPACE_001">>, <<prim.path, "HEALTH_COMP_001">>,
      <<prim.path, "MOVEMENT_COMP_001">>, <<prim.path, "AI_COMP_001">>,
      <<prim.path, "PERF_001">>, <<prim.path, "ENTITY_TYPE_001">>>>

Checked(prim) == prim.valid /\ ~prim.abstract

RECURSIVE StageIssues(_)
StageIssues(s) ==
    IF s = <<>> THEN <<>>
    ELSE (IF Checked(PrimAt(Head(s))) THEN NodeIssues(PrimAt(Head(s))) ELSE <<>>)
         \o StageIssues(Tail(s))

RECURSIVE StageCalls(_)
StageCalls(s) ==
    IF s = <<>> THEN <<>>
    ELSE (IF Checked(PrimAt(Head(s))) THEN NodeCalls(PrimAt(Head(s))) ELSE <<>>)
         \o StageCalls(Tail(s))

Lines(issues) == [i \in 1..Len(issues) |-> IssueStr(issues[i])]

OfSeverity(issues, severity) == SelectSeq(issues, LAMBDA x : x.severity = severity)

Opened == pc = "exited" /\ args.usd_file.exists /\ args.usd_file.opens

ParsedReport == JsonLoad(written[1].content)

(***************************************************************************)
(* C1: after any sequence of validate_stage calls, for every severity the  *)
(* counter issue_counts[S] equals the number of issues of severity S in    *)
(* all_issues, and get_summary prints exactly these numbers.               *)
(***************************************************************************)
C1_CountsMatchIssues ==
    /\ \A sev \in Severities : issue_counts[sev] = CountOf(all_issues, sev)
    /\ op = "get_summary" =>
           ret = <<"Validation complete: ",
                   ToString(CountOf(all_issues, ERROR)), " errors, ",
                   ToString(CountOf(all_issues, WARNING)), " warnings, ",
                   ToString(CountOf(all_issues, INFO)), " info">>

C1_Witness ==
    /\ op = "get_summary"
    /\ CountOf(all_issues, ERROR) = 1
    /\ CountOf(all_issues, WARNING) = 3

(***************************************************************************)
(* C2: has_errors() returns true exactly when all_issues holds at least    *)
(* one issue of severity ERROR; warnings and infos alone leave it false.   *)
(***************************************************************************)
C2_HasErrorsIffErrorIssue ==
    op = "has_errors" =>
        /\ ret \in BOOLEAN
        /\ ret <=> \E i \in 1..Len(all_issues) : all_issues[i].severity = ERROR

C2_Witness ==
    /\ op = "has_errors"
    /\ ret = FALSE
    /\ \E i \in 1..Len(all_issues) : all_issues[i].severity = WARNING

(***************************************************************************)
(* C3: a validate_stage call on the stage the previous validate_stage call *)
(* of the same validator was given leaves the issue list (same issues,     *)
(* same order) and the counts as that call left them, and returns them.    *)
(***************************************************************************)
C3_Idempotent ==
    [][(op' = "validate_stage" /\ prior'.same) =>
           /\ all_issues' = all_issues
           /\ issue_counts' = issue_counts
           /\ ret' = all_issues]_vars

C3_Witness ==
    /\ op = "validate_stage"
    /\ prior.same
    /\ Len(all_issues) >= 2

(***************************************************************************)
(* C4: whatever stages a validator was run on before, after                *)
(* validate_stage(G2) it holds the issue list and counts a freshly         *)
(* constructed validator holds after validate_stage(G2).                   *)
(***************************************************************************)
C4_NoRunHistory ==
    prior.runs > 0 =>
        LET fresh == ValidateStage(NewValidator, stage)
        IN  /\ all_issues = fresh.all_issues
            /\ issue_counts = fresh.issue_counts

C4_Witness ==
    /\ op = "validate_stage"
    /\ prior.runs = 2
    /\ ~prior.same
    /\ prior.errs
    /\ all_issues # <<>>
    /\ issue_counts[ERROR] = 0

(***************************************************************************)
(* C5: the issue list validate_stage produces is the concatenation, over   *)
(* the valid non-abstract prims in traversal order, of the results of the  *)
(* six rules in registration order; each such prim and rule is evaluated   *)
(* exactly once, in that order, and no other prim is evaluated.            *)
(***************************************************************************)
C5_TraversalAndRuleOrder ==
    prior.runs > 0 =>
        /\ all_issues = StageIssues(stage)
        /\ rule_calls = StageCalls(stage)

C5_Witness ==
    /\ op = "validate_stage"
    /\ Len(rule_calls) = 12
    /\ Len(all_issues) >= 4
    /\ all_issues[1].path # all_issues[Len(all_issues)].path
    /\ \E i \in 1..Len(all_issues) : all_issues[i].rule_id # all_issues[1].rule_id
                                      /\ all_issues[i].path = all_issues[1].path

(***************************************************************************)
(* C6: when the scene file opens, main exits 0 if the rules find no ERROR  *)
(* on the stage and 1 if they find one, whatever the number of warnings    *)
(* and whatever --errors-only and --report are.                            *)
(***************************************************************************)
C6_ExitCode ==
    Opened =>
        ret = IF CountOf(StageIssues(args.usd_file.stage), ERROR) = 0 THEN 0 ELSE 1

C6_Witness ==
    /\ Opened
    /\ ret = 0
    /\ CountOf(all_issues, WARNING) > 0
    /\ args.errors_only
    /\ args.report # None

(***************************************************************************)
(* C7: when the scene file is missing or does not open as a stage, main    *)
(* prints one error line and exits 1: no rule is evaluated, no summary and *)
(* no issue is printed, no report is written even with --report.           *)
(***************************************************************************)
C7_OpenFailure ==
    (pc = "exited" /\ ~(args.usd_file.exists /\ args.usd_file.opens)) =>
        /\ ret = 1
        /\ stdout = <<<<IF args.usd_file.exists
                         THEN "Error: Failed to open USD stage: "
                         ELSE "Error: File not found: ",
                        args.usd_file.path>>>>
        /\ written = <<>>
        /\ rule_calls = <<>>
        /\ all_issues = <<>>

C7_Witness ==
    /\ pc = "exited"
    /\ args.usd_file.exists
    /\ ~args.usd_file.opens
    /\ args.report # None
    /\ ret = 1

(***************************************************************************)
(* C8: print_issues with a severity prints exactly the accumulated issues  *)
(* of that severity in their order, and all of them with no filter; main   *)
(* with --errors-only prints exactly the ERROR issues, and the option      *)
(* changes neither the issue list, nor the counts, nor the report.         *)
(***************************************************************************)
C8_Filter ==
    /\ \A sev \in Severities :
           PrintIssues(Validator, Some(sev)) = Lines(OfSeverity(all_issues, sev))
    /\ PrintIssues(Validator, None) = Lines(all_issues)
    /\ Opened =>
           LET found == StageIssues(args.usd_file.stage)
               shown == IF args.errors_only THEN OfSeverity(found, ERROR) ELSE found
           IN  /\ stdout = <<GetSummary(Validator)>> \o Lines(shown)
                               \o (IF args.report # None
                                   THEN <<<<"Detailed report written to: ", args.report[1]>>>>
                                   ELSE <<>>)
               /\ all_issues = found
               /\ \A sev \in Severities : issue_counts[sev] = CountOf(found, sev)
               /\ args.report # None =>
                      /\ Len(written) = 1
                      /\ ParsedReport.summary.total = Len(found)
                      /\ Len(ParsedReport.issues) = Len(found)

C8_Witness ==
    /\ Opened
    /\ args.errors_only
    /\ args.report # None
    /\ CountOf(all_issues, ERROR) > 0
    /\ CountOf(all_issues, WARNING) > 0
    /\ Len(stdout) = 2 + CountOf(all_issues, ERROR)

(***************************************************************************)
(* C9: in the report generate_report writes, summary.total is the number   *)
(* of issue records and the sum of errors, warnings and info, the summary  *)
(* counts are the validator's counters and the records follow the order of *)
(* all_issues; parsing the written text gives back these counts and        *)
(* this number of records.                                                 *)
(***************************************************************************)
C9_ReportConsistent ==
    op = "generate_report" =>
        LET report == Report(Validator)
            parsed == ParsedReport
        IN  /\ report.summary.total = Len(report.issues)
            /\ report.summary.total
                   = report.summary.errors + report.summary.warnings + report.summary.info
            /\ report.summary.errors = issue_counts[ERROR]
            /\ report.summary.warnings = issue_counts[WARNING]
            /\ report.summary.info = issue_counts[INFO]
            /\ Len(report.issues) = Len(all_issues)
            /\ \A i \in 1..Len(all_issues) :
                   /\ report.issues[i].path = <<all_issues[i].path>>
                   /\ report.issues[i].message = all_issues[i].message
                   /\ report.issues[i].rule_id = <<all_issues[i].rule_id>>
            /\ parsed.summary.errors = report.summary.errors
            /\ parsed.summary.warnings = report.summary.warnings
            /\ parsed.summary.info = report.summary.info
            /\ parsed.summary.total = report.summary.total
            /\ Len(parsed.issues) = Len(report.issues)

C9_Witness ==
    /\ op = "generate_report"
    /\ issue_counts[ERROR] >= 1
    /\ issue_counts[WARNING] >= 2
    /\ Len(ParsedReport.issues) = Len(all_issues)

(***************************************************************************)
(* C10, as stated: the report has the keys summary and issues, summary has *)
(* exactly errors, warnings, info, total, and every issue record has       *)
(* exactly path, message, severity_name, rule_id, fix_description, with    *)
(* severity_name the name of the issue's severity.                         *)
(***************************************************************************)
C10_SeverityNameField ==
    op = "generate_report" =>
        /\ DOMAIN ParsedReport = {"summary", "issues"}
        /\ DOMAIN ParsedReport.summary = {"errors", "warnings", "info", "total"}
        /\ \A i \in 1..Len(ParsedReport.issues) :
               /\ DOMAIN ParsedReport.issues[i]
                      = {"path", "message", "severity_name", "rule_id", "fix_description"}
               /\ ParsedReport.issues[i].severity_name = <<all_issues[i].severity.name>>

(***************************************************************************)
(* C10, amended: the same, with the severity's name (ERROR, WARNING or     *)
(* INFO) held by the field severity; there is no field severity_name.      *)
(***************************************************************************)
C10_SeverityField ==
    op = "generate_report" =>
        /\ DOMAIN ParsedReport = {"summary", "issues"}
        /\ DOMAIN ParsedReport.summary = {"errors", "warnings", "info", "total"}
        /\ Len(ParsedReport.issues) = Len(all_issues)
        /\ \A i \in 1..Len(ParsedReport.issues) :
               /\ DOMAIN ParsedReport.issues[i]
                      = {"path", "message", "severity", "rule_id", "fix_description"}
               /\ ParsedReport.issues[i].severity = <<all_issues[i].severity.name>>
               /\ ParsedReport.issues[i].severity[1] \in {"ERROR", "WARNING", "INFO"}

C10_Witness ==
    /\ op = "generate_report"
    /\ \E i \in 1..Len(ParsedReport.issues) : ParsedReport.issues[i].severity = <<"ERROR">>
    /\ \E i \in 1..Len(ParsedReport.issues) : ParsedReport.issues[i].severity = <<"WARNING">>

(***************************************************************************)
(* What the properties of one rule call compare the result with: the node  *)
(* the rule was given, read without the rule's own accessors.              *)
(***************************************************************************)
Called(rule) == pc = "returned" /\ op = rule

TagOn(tag) == \E i \in 1..Len(args.schemas) : args.schemas[i] = tag

Carries(name) == \E i \in 1..Len(args.attrs) : args.attrs[i].name = name

AttrOf(name) == args.attrs[CHOOSE i \in 1..Len(args.attrs) : args.attrs[i].name = name]

\* the attribute is on the node and holds a value
Holds(name) == Carries(name) /\ AttrOf(name).authored

Errors(issues) == CountOf(issues, ERROR)

Warnings(issues) == CountOf(issues, WARNING)

\* the pieces of a name between its colons
RECURSIVE Segments(_)
Segments(cs) ==
    IF \A i \in 1..Len(cs) : cs[i] # ":" THEN <<cs>>
    ELSE LET k == CHOOSE i \in 1..Len(cs) : cs[i] = ":" /\ \A j \in 1..(i - 1) : cs[j] # ":"
         IN  <<SubSeq(cs, 1, k - 1)>> \o Segments(SubSeq(cs, k + 1, Len(cs)))

Sparkle == <<"s","p","a","r","k","l","e">>

\* the name is prefixed 'sparkle:'
Prefixed(name) ==
    LET seg == Segments(Chars(name)) IN Len(seg) >= 2 /\ seg[1] = Sparkle

ExpensiveCount ==
    Cardinality({i \in 1..Len(args.attrs) : args.attrs[i].typeName \in {"matrix4d", "string"}})

(***************************************************************************)
(* C11: a rule that does not apply to a node returns no issue: Health,     *)
(* Movement and AI for a node without their tag, whatever attributes it    *)
(* carries; Namespace for a node with no attribute prefixed 'sparkle:';    *)
(* Entity type for a node that is no enemy, player or pickup; Performance  *)
(* for a node at or below the three thresholds.                            *)
(***************************************************************************)
C11_NotApplicableEmpty ==
    /\ Called("Health") /\ ~TagOn("SparkleHealthAPI") => ret = <<>>
    /\ Called("Movement") /\ ~TagOn("SparkleMovementAPI") => ret = <<>>
    /\ Called("Ai") /\ ~TagOn("SparkleAIAPI") => ret = <<>>
    /\ Called("Namespace") /\ (\A i \in 1..Len(args.attrs) : ~Prefixed(args.attrs[i].name))
           => ret = <<>>
    /\ Called("EntityType")
           /\ args.typeName \notin {"SparkleEnemyCarrot", "SparklePlayer", "SparklePickup"}
           => ret = <<>>
    /\ Called("Performance")
           /\ Len(args.schemas) <= 10 /\ Len(args.attrs) <= 50 /\ ExpensiveCount <= 10
           => ret = <<>>

\* the Health rule was given a node without the tag whose current health is negative
C11_Witness ==
    /\ Called("Health")
    /\ ~TagOn("SparkleHealthAPI")
    /\ Holds("sparkle:health:current")
    /\ AttrOf("sparkle:health:current").num < 0
    /\ ~Carries("sparkle:health:maximum")
    /\ ret = <<>>

\* the attributes checked against the minimum 0, each with its rule and the tag the rule needs
MinimumChecked ==
    <<[rule |-> "Health", tag |-> "SparkleHealthAPI", name |-> "sparkle:health:current"],
      [rule |-> "Health", tag |-> "SparkleHealthAPI", name |-> "sparkle:health:maximum"],
      [rule |-> "Movement", tag |-> "SparkleMovementAPI", name |-> "sparkle:movement:speed"],
      [rule |-> "Ai", tag |-> "SparkleAIAPI", name |-> "sparkle:ai:detectionRadius"]>>

\* the returned ERRORs that say the value of the attribute is below its minimum
BelowMinimum(name) ==
    {i \in 1..Len(ret) :
        LET m == ret[i].message
        IN  /\ ret[i].severity = ERROR
            /\ Len(m) >= 3
            /\ \/ m[1] = "Attribute '" /\ m[2] = name /\ m[3] = "' value "
               \/ /\ name = "sparkle:movement:speed"
                  /\ m[1] = "Movement speed (" /\ m[3] = ") cannot be negative"
               \/ /\ name = "sparkle:ai:detectionRadius"
                  /\ m[1] = "AI detection radius (" /\ m[3] = ") cannot be negative"}

(***************************************************************************)
(* C12: the minimum 0 is inclusive.  When a rule applies to a node whose   *)
(* sparkle:health:current, sparkle:health:maximum, sparkle:movement:speed  *)
(* or sparkle:ai:detectionRadius holds a value, the rule returns exactly   *)
(* one below-minimum ERROR for that attribute if the value is below 0 and  *)
(* none if it is 0 or more.                                                *)
(***************************************************************************)
C12_MinimumInclusive ==
    \A k \in 1..Len(MinimumChecked) :
        Called(MinimumChecked[k].rule) /\ TagOn(MinimumChecked[k].tag)
            /\ Holds(MinimumChecked[k].name)
        => Cardinality(BelowMinimum(MinimumChecked[k].name))
               = IF AttrOf(MinimumChecked[k].name).num < 0 THEN 1 ELSE 0

\* current health is exactly 0 and passes, maximum health is -1 and does not
C12_Witness ==
    /\ Called("Health")
    /\ TagOn("SparkleHealthAPI")
    /\ Holds("sparkle:health:current") /\ AttrOf("sparkle:health:current").num = 0
    /\ Holds("sparkle:health:maximum") /\ AttrOf("sparkle:health:maximum").num = -1
    /\ BelowMinimum("sparkle:health:current") = {}
    /\ Cardinality(BelowMinimum("sparkle:health:maximum")) = 1

\* the node has the health tag and both health attributes, declared float and not negative
HealthWellFormed ==
    /\ TagOn("SparkleHealthAPI")
    /\ \A name \in {"sparkle:health:current", "sparkle:health:maximum"} :
           Holds(name) /\ AttrOf(name).typeName = "float" /\ AttrOf(name).num >= 0

\* the issue says that current health exceeds maximum health
SaysExceeds(issue) ==
    /\ Len(issue.message) = 5
    /\ issue.message[1] = "Current health ("
    /\ issue.message[3] = ") exceeds maximum health ("

(***************************************************************************)
(* C13: for a node with SparkleHealthAPI whose current and maximum health  *)
(* are both present, float and not negative, the Health rule returns       *)
(* exactly one issue, an ERROR of HEALTH_COMP_001 saying current exceeds   *)
(* maximum, when current > maximum, and no issue when current <= maximum.  *)
(***************************************************************************)
C13_ScenarioA ==
    Called("Health") /\ HealthWellFormed =>
        IF AttrOf("sparkle:health:current").num > AttrOf("sparkle:health:maximum").num
        THEN /\ Len(ret) = 1
             /\ ret[1].severity = ERROR
             /\ ret[1].rule_id = "HEALTH_COMP_001"
             /\ SaysExceeds(ret[1])
        ELSE ret = <<>>

\* current 150 against maximum 100
C13_Witness ==
    /\ Called("Health")
    /\ HealthWellFormed
    /\ AttrOf("sparkle:health:current").num = 150
    /\ AttrOf("sparkle:health:maximum").num = 100
    /\ Len(ret) = 1
    /\ SaysExceeds(ret[1])

HealthNames == {"sparkle:health:current", "sparkle:health:maximum"}

\* the returned issues that say the attribute is missing
SaidMissing(name) ==
    {i \in 1..Len(ret) :
        /\ Len(ret[i].message) = 3
        /\ ret[i].message[1] = "Health component missing required attribute '"
        /\ ret[i].message[2] = name}

\* the returned issues that say the attribute has an incorrect type
SaidWrongType(name) ==
    {i \in 1..Len(ret) :
        /\ Len(ret[i].message) >= 3
        /\ ret[i].message[1] = "Attribute '"
        /\ ret[i].message[2] = name
        /\ ret[i].message[3] = "' has incorrect type '"}

SaidExceeds == {i \in 1..Len(ret) : SaysExceeds(ret[i])}

One(condition) == IF condition THEN 1 ELSE 0

(***************************************************************************)
(* C14: for a node with SparkleHealthAPI the Health rule returns ERRORs    *)
(* of HEALTH_COMP_001 only, one for each violation and nothing else: one   *)
(* per health attribute that is missing, one per present attribute whose   *)
(* type is not float, one per present attribute whose value is below 0,    *)
(* and one when both hold values and current > maximum; a missing          *)
(* attribute gives only its 'missing' ERROR and no current-versus-maximum  *)
(* ERROR.                                                                  *)
(***************************************************************************)
C14_OneErrorPerViolation ==
    Called("Health") /\ TagOn("SparkleHealthAPI") =>
        /\ \A i \in 1..Len(ret) :
               ret[i].severity = ERROR /\ ret[i].rule_id = "HEALTH_COMP_001"
        /\ \A name \in HealthNames :
               /\ Cardinality(SaidMissing(name)) = One(~Carries(name))
               /\ Cardinality(SaidWrongType(name))
                      = One(Carries(name) /\ AttrOf(name).typeName # "float")
               /\ Cardinality(BelowMinimum(name)) = One(Holds(name) /\ AttrOf(name).num < 0)
               /\ ~Carries(name) => SaidWrongType(name) = {} /\ BelowMinimum(name) = {}
        /\ Cardinality(SaidExceeds)
               = One(/\ \A name \in HealthNames : Holds(name)
                     /\ AttrOf("sparkle:health:current").num
                            > AttrOf("sparkle:health:maximum").num)
        /\ (\E name \in HealthNames : ~Carries(name)) => SaidExceeds = {}
        /\ Len(ret) = Cardinality(SaidExceeds)
               + Cardinality(SaidMissing("sparkle:health:current"))
               + Cardinality(SaidWrongType("sparkle:health:current"))
               + Cardinality(BelowMinimum("sparkle:health:current"))
               + Cardinality(SaidMissing("sparkle:health:maximum"))
               + Cardinality(SaidWrongType("sparkle:health:maximum"))
               + Cardinality(BelowMinimum("sparkle:health:maximum"))

\* current health is a double and negative, maximum health is missing: three ERRORs
C14_Witness ==
    /\ Called("Health")
    /\ TagOn("SparkleHealthAPI")
    /\ Holds("sparkle:health:current")
    /\ AttrOf("sparkle:health:current").typeName = "double"
    /\ AttrOf("sparkle:health:current").num < 0
    /\ ~Carries("sparkle:health:maximum")
    /\ Len(ret) = 3
    /\ Cardinality(SaidWrongType("sparkle:health:current")) = 1
    /\ Cardinality(BelowMinimum("sparkle:health:current")) = 1
    /\ Cardinality(SaidMissing("sparkle:health:maximum")) = 1

\* the returned issues of the given severity that are about the speed attribute
SpeedIssues(severity) ==
    {i \in 1..Len(ret) :
        /\ ret[i].severity = severity
        /\ ret[i].message[1] \in
               {"Movement speed (",
                "Movement component missing required attribute 'sparkle:movement:speed'"}}

(***************************************************************************)
(* C15: for a node with SparkleMovementAPI the speed check returns one     *)
(* ERROR iff the speed is below 0, one WARNING iff it is above 100, never  *)
(* both and nothing from 0 to 100 (100 included); a missing speed          *)
(* attribute gives one ERROR.  A speed of 150 gives exactly one WARNING    *)
(* and no ERROR.                                                           *)
(***************************************************************************)
C15_SpeedCheck ==
    Called("Movement") /\ TagOn("SparkleMovementAPI") =>
        /\ SpeedIssues(INFO) = {}
        /\ Cardinality(SpeedIssues(ERROR)) + Cardinality(SpeedIssues(WARNING)) <= 1
        /\ ~Carries("sparkle:movement:speed") =>
               /\ Cardinality(SpeedIssues(ERROR)) = 1
               /\ SpeedIssues(WARNING) = {}
        /\ Holds("sparkle:movement:speed") =>
               /\ Cardinality(SpeedIssues(ERROR))
                      = One(AttrOf("sparkle:movement:speed").num < 0)
               /\ Cardinality(SpeedIssues(WARNING))
                      = One(AttrOf("sparkle:movement:speed").num > 100)
        /\ Carries("sparkle:movement:speed") /\ ~Holds("sparkle:movement:speed") =>
               SpeedIssues(ERROR) = {} /\ SpeedIssues(WARNING) = {}

\* Scenario B: speed 150 and an allowed pattern, one WARNING in all
C15_Witness ==
    /\ Called("Movement")
    /\ TagOn("SparkleMovementAPI")
    /\ Holds("sparkle:movement:speed")
    /\ AttrOf("sparkle:movement:speed").num = 150
    /\ Cardinality(SpeedIssues(WARNING)) = 1
    /\ SpeedIssues(ERROR) = {}
    /\ Len(ret) = 1

\* the returned issues of the given severity that are about the pattern attribute
PatternIssues(severity) ==
    {i \in 1..Len(ret) :
        /\ ret[i].severity = severity
        /\ ret[i].message[1] \in
               {"Movement pattern '",
                "Movement component missing required attribute 'sparkle:movement:pattern'"}}

(***************************************************************************)
(* C16: for a node with SparkleMovementAPI the pattern check returns       *)
(* exactly one WARNING when sparkle:movement:pattern is missing, exactly   *)
(* one ERROR when its value is not, letter for letter, one of direct,      *)
(* patrol, wander, charge, flee, stationary, and nothing when it is; what  *)
(* it returns does not depend on the speed, and the rule returns the       *)
(* issues of the two checks and no other.                                  *)
(***************************************************************************)
C16_PatternCheck ==
    Called("Movement") /\ TagOn("SparkleMovementAPI") =>
        /\ PatternIssues(INFO) = {}
        /\ ~Carries("sparkle:movement:pattern") =>
               /\ Cardinality(PatternIssues(WARNING)) = 1
               /\ PatternIssues(ERROR) = {}
        /\ Holds("sparkle:movement:pattern") =>
               /\ Cardinality(PatternIssues(ERROR))
                      = One(AttrOf("sparkle:movement:pattern").tok \notin
                                {"direct", "patrol", "wander", "charge", "flee", "stationary"})
               /\ PatternIssues(WARNING) = {}
        /\ Carries("sparkle:movement:pattern") /\ ~Holds("sparkle:movement:pattern") =>
               PatternIssues(ERROR) = {} /\ PatternIssues(WARNING) = {}
        /\ Len(ret) = Cardinality(SpeedIssues(ERROR)) + Cardinality(SpeedIssues(WARNING))
               + Cardinality(PatternIssues(ERROR)) + Cardinality(PatternIssues(WARNING))

\* the pattern is 'Patrol' with a capital and the speed is negative: one ERROR from each check
C16_Witness ==
    /\ Called("Movement")
    /\ TagOn("SparkleMovementAPI")
    /\ Holds("sparkle:movement:pattern")
    /\ AttrOf("sparkle:movement:pattern").tok = "Patrol"
    /\ Cardinality(PatternIssues(ERROR)) = 1
    /\ Holds("sparkle:movement:speed")
    /\ AttrOf("sparkle:movement:speed").num < 0
    /\ Len(ret) = 2

\* the returned issues that are about the behavior attribute
BehaviorIssues ==
    {i \in 1..Len(ret) :
        ret[i].message[1] \in
            {"AI behavior '", "AI component missing required attribute 'sparkle:ai:behavior'"}}

\* the returned issues that are about the detection radius
RadiusIssues == {i \in 1..Len(ret) : ret[i].message[1] = "AI detection radius ("}

(***************************************************************************)
(* C17: for a node with SparkleAIAPI the AI rule returns exactly one ERROR *)
(* about sparkle:ai:behavior when the attribute is missing, exactly one    *)
(* when its value is none of passive, defensive, aggressive, neutral,      *)
(* flee, and none otherwise; sparkle:ai:detectionRadius may be absent      *)
(* without any issue and gives one ERROR only when its value is negative.  *)
(***************************************************************************)
C17_BehaviorAndRadius ==
    Called("Ai") /\ TagOn("SparkleAIAPI") =>
        /\ \A i \in BehaviorIssues \cup RadiusIssues : ret[i].severity = ERROR
        /\ ~Carries("sparkle:ai:behavior") => Cardinality(BehaviorIssues) = 1
        /\ Holds("sparkle:ai:behavior") =>
               Cardinality(BehaviorIssues)
                   = One(AttrOf("sparkle:ai:behavior").tok \notin
                             {"passive", "defensive", "aggressive", "neutral", "flee"})
        /\ Carries("sparkle:ai:behavior") /\ ~Holds("sparkle:ai:behavior") =>
               BehaviorIssues = {}
        /\ ~Carries("sparkle:ai:detectionRadius") => RadiusIssues = {}
        /\ Holds("sparkle:ai:detectionRadius") =>
               Cardinality(RadiusIssues) = One(AttrOf("sparkle:ai:detectionRadius").num < 0)
        /\ Carries("sparkle:ai:detectionRadius") /\ ~Holds("sparkle:ai:detectionRadius") =>
               RadiusIssues = {}

\* the behavior is 'patrol', which is a movement pattern, and there is no detection radius
C17_Witness ==
    /\ Called("Ai")
    /\ TagOn("SparkleAIAPI")
    /\ Holds("sparkle:ai:behavior")
    /\ AttrOf("sparkle:ai:behavior").tok = "patrol"
    /\ ~Carries("sparkle:ai:detectionRadius")
    /\ Cardinality(BehaviorIssues) = 1
    /\ RadiusIssues = {}
    /\ Len(ret) = 1

HasPatrolPath == \E i \in 1..Len(args.rels) : args.rels[i] = "sparkle:ai:patrolPath"

\* the returned issues that are about the patrol path and the movement pattern
PatrolIssues ==
    {i \in 1..Len(ret) : ret[i].message[1] = "AI has patrol path but movement pattern is '"}

(***************************************************************************)
(* C18: for a node with SparkleAIAPI and the relationship                  *)
(* sparkle:ai:patrolPath the AI rule returns exactly one patrol issue when *)
(* sparkle:movement:pattern is present with a value other than 'patrol',   *)
(* and none when the value is 'patrol' or the attribute is absent;         *)
(* without the relationship it returns none.  The issue is a WARNING,      *)
(* never an ERROR, and the rule returns no issue besides those about the   *)
(* behavior, the radius and the patrol path.                               *)
(***************************************************************************)
C18_PatrolConsistency ==
    Called("Ai") /\ TagOn("SparkleAIAPI") =>
        /\ \A i \in PatrolIssues : ret[i].severity = WARNING
        /\ ~HasPatrolPath => PatrolIssues = {}
        /\ HasPatrolPath /\ ~Carries("sparkle:movement:pattern") => PatrolIssues = {}
        /\ HasPatrolPath /\ Holds("sparkle:movement:pattern") =>
               Cardinality(PatrolIssues)
                   = One(AttrOf("sparkle:movement:pattern").tok # "patrol")
        /\ Carries("sparkle:movement:pattern") /\ ~Holds("sparkle:movement:pattern") =>
               PatrolIssues = {}
        /\ Len(ret) = Cardinality(BehaviorIssues) + Cardinality(RadiusIssues)
               + Cardinality(PatrolIssues)

\* a patrol path with the pattern 'wander', and nothing else wrong
C18_Witness ==
    /\ Called("Ai")
    /\ TagOn("SparkleAIAPI")
    /\ HasPatrolPath
    /\ Holds("sparkle:movement:pattern")
    /\ AttrOf("sparkle:movement:pattern").tok = "wander"
    /\ Len(ret) = 1
    /\ PatrolIssues = {1}
    /\ ret[1].severity = WARNING

\* the name has the form sparkle:<category>:<name>: three pieces, the category made of
\* letters, the name a letter followed by letters, digits or underscores
Conforms(name) ==
    LET seg == Segments(Chars(name))
    IN  /\ Len(seg) = 3
        /\ seg[1] = Sparkle
        /\ Len(seg[2]) >= 1
        /\ \A k \in 1..Len(seg[2]) : seg[2][k] \in Lower \cup Upper
        /\ Len(seg[3]) >= 1
        /\ seg[3][1] \in Lower \cup Upper
        /\ \A k \in 2..Len(seg[3]) : seg[3][k] \in Lower \cup Upper \cup Digit \cup {"_"}

\* the attributes of the node that are prefixed 'sparkle:' and do not have the form
NonConforming ==
    {i \in 1..Len(args.attrs) :
        Prefixed(args.attrs[i].name) /\ ~Conforms(args.attrs[i].name)}

\* the returned issues that name the attribute
Naming(name) == {i \in 1..Len(ret) : Len(ret[i].message) = 3 /\ ret[i].message[2] = name}

(***************************************************************************)
(* C19: the Namespace rule returns exactly one ERROR of                    *)
(* SCHEMA_NAMESPACE_001 for each attribute of the node whose name starts   *)
(* with 'sparkle:' and does not have the form sparkle:<category>:<name>,   *)
(* and nothing for the names that have the form or do not start with       *)
(* 'sparkle:': it returns as many issues as there are non-conforming       *)
(* sparkle attributes.                                                     *)
(***************************************************************************)
C19_NamespaceConvention ==
    Called("Namespace") =>
        /\ Len(ret) = Cardinality(NonConforming)
        /\ \A i \in 1..Len(ret) :
               ret[i].severity = ERROR /\ ret[i].rule_id = "SCHEMA_NAMESPACE_001"
        /\ \A i \in 1..Len(args.attrs) :
               Cardinality(Naming(args.attrs[i].name)) = One(i \in NonConforming)

\* 'sparkle:BadName' next to a name that has the form: one ERROR
C19_Witness ==
    /\ Called("Namespace")
    /\ Carries("sparkle:BadName")
    /\ Carries("sparkle:a:b_2")
    /\ Len(ret) = 1
    /\ Naming("sparkle:BadName") = {1}

\* the returned issues whose message starts with the given text
Starting(text) == {i \in 1..Len(ret) : ret[i].message[1] = text}

(***************************************************************************)
(* C20: for every node the Performance rule returns WARNINGs only, at most *)
(* three, one for each threshold strictly exceeded: more than 10 applied   *)
(* tags, more than 50 attributes, more than 10 attributes whose type is    *)
(* 4x4 matrix or string; a count equal to its threshold gives no warning.  *)
(***************************************************************************)
C20_PerformanceThresholds ==
    Called("Performance") =>
        /\ \A i \in 1..Len(ret) : ret[i].severity = WARNING /\ ret[i].rule_id = "PERF_001"
        /\ Len(ret) <= 3
        /\ Cardinality(Starting("Prim has excessive number of API schemas applied ("))
               = One(Len(args.schemas) > 10)
        /\ Cardinality(Starting("Prim has excessive number of attributes ("))
               = One(Len(args.attrs) > 50)
        /\ Cardinality(Starting("Prim has many attributes with expensive data types ("))
               = One(ExpensiveCount > 10)
        /\ Len(ret) = One(Len(args.schemas) > 10) + One(Len(args.attrs) > 50)
               + One(ExpensiveCount > 10)

\* 11 tags, exactly 50 attributes of which exactly 10 are expensive: one WARNING, for the tags
C20_Witness ==
    /\ Called("Performance")
    /\ Len(args.schemas) = 11
    /\ Len(args.attrs) = 50
    /\ ExpensiveCount = 10
    /\ Len(ret) = 1
    /\ ret[1].severity = WARNING

EnemyExpected == {"SparkleHealthAPI", "SparkleCombatAPI", "SparkleAIAPI"}

PlayerExpected == {"SparkleHealthAPI", "SparkleMovementAPI"}

\* the returned issues that say the schema is missing
SaidMissingSchema(schema) ==
    {i \in 1..Len(ret) :
        /\ Len(ret[i].message) = 3
        /\ ret[i].message[2] = " is missing recommended schema: "
        /\ ret[i].message[3] = schema}

\* what the rule returns for a node of the type with the expected tags: WARNINGs only, one
\* for each expected tag that is not applied
OneWarningPerMissing(expected) ==
    /\ \A i \in 1..Len(ret) :
           ret[i].severity = WARNING /\ ret[i].rule_id = "ENTITY_TYPE_001"
    /\ \A schema \in expected : Cardinality(SaidMissingSchema(schema)) = One(~TagOn(schema))
    /\ Len(ret) = Cardinality({schema \in expected : ~TagOn(schema)})

EntityWarnings ==
    /\ args.typeName = "SparkleEnemyCarrot" => OneWarningPerMissing(EnemyExpected)
    /\ args.typeName = "SparklePlayer" => OneWarningPerMissing(PlayerExpected)

(***************************************************************************)
(* C21 as stated: for an enemy the Entity-type rule returns exactly one    *)
(* WARNING for each of SparkleHealthAPI, SparkleCombatAPI, SparkleAIAPI    *)
(* that is not applied, for a player one for each of SparkleHealthAPI,     *)
(* SparkleMovementAPI; a node with all expected tags gives no issue; and   *)
(* exactly one of the enemy, player and pickup checks is run for any node. *)
(***************************************************************************)
C21_OneCheckForAnyNode ==
    Called("EntityType") => EntityWarnings /\ Len(rule_calls) = 1

(***************************************************************************)
(* C21, amended: the same WARNINGs, and the rule runs exactly one of the   *)
(* three checks, the one of its type, for a node that is an enemy, a       *)
(* player or a pickup, and no check at all for a node of any other type.   *)
(***************************************************************************)
C21_OneCheckForEntities ==
    Called("EntityType") =>
        /\ EntityWarnings
        /\ rule_calls =
               IF args.typeName = "SparkleEnemyCarrot" THEN <<"_validate_enemy">>
               ELSE IF args.typeName = "SparklePlayer" THEN <<"_validate_player">>
               ELSE IF args.typeName = "SparklePickup" THEN <<"_validate_pickup">>
               ELSE <<>>

\* an enemy with the health tag only: one WARNING for the combat tag, one for the AI tag
C21_Witness ==
    /\ Called("EntityType")
    /\ args.typeName = "SparkleEnemyCarrot"
    /\ TagOn("SparkleHealthAPI") /\ TagOn("SparkleMovementAPI")
    /\ ~TagOn("SparkleCombatAPI") /\ ~TagOn("SparkleAIAPI")
    /\ Len(ret) = 2
    /\ rule_calls = <<"_validate_enemy">>

(***************************************************************************)
(* C22: for a pickup the Entity-type rule returns exactly one issue, an    *)
(* ERROR of ENTITY_TYPE_001, when the node has no attribute                *)
(* sparkle:entity:id, and no issue when it has one, whichever tags are     *)
(* applied.                                                                *)
(***************************************************************************)
C22_ScenarioD ==
    Called("EntityType") /\ args.typeName = "SparklePickup" =>
        IF Carries("sparkle:entity:id")
        THEN ret = <<>>
        ELSE /\ Len(ret) = 1
             /\ ret[1].severity = ERROR
             /\ ret[1].rule_id = "ENTITY_TYPE_001"
             /\ ret[1].message = <<"Pickup is missing required 'sparkle:entity:id' attribute">>

\* a pickup without the id and without any tag: one ERROR and no WARNING for the tags
C22_Witness ==
    /\ Called("EntityType")
    /\ args.typeName = "SparklePickup"
    /\ ~Carries("sparkle:entity:id")
    /\ args.schemas = <<>>
    /\ Len(ret) = 1
    /\ ret[1].severity = ERROR

(***************************************************************************)
(* C23: after validate_stage on a stage with no prim the issue list is     *)
(* empty, get_summary reports 0 errors, 0 warnings, 0 info and has_errors  *)
(* is false, also when the run before it on the same validator had found   *)
(* errors.                                                                 *)
(***************************************************************************)
C23_ScenarioE ==
    stage = <<>> =>
        /\ all_issues = <<>>
        /\ \A sev \in Severities : issue_counts[sev] = 0
        /\ op = "validate_stage" => ret = <<>>
        /\ op = "get_summary" =>
               ret = <<"Validation complete: ", "0", " errors, ", "0", " warnings, ",
                       "0", " info">>
        /\ op = "has_errors" => ret = FALSE

\* the empty stage was validated after a run that had found errors, and has_errors is asked
C23_Witness ==
    /\ op = "has_errors"
    /\ stage = <<>>
    /\ prior.runs = 2
    /\ prior.errs
    /\ ret = FALSE

\* the registered rules whose rule_id is the given one
RulesWithId(rule_id) == {r \in 1..Len(Rules) : RuleId(Rules[r]) = rule_id}

(***************************************************************************)
(* C24: the rule_ids of the six registered rules are pairwise distinct,    *)
(* and every issue of the accumulated list carries the rule_id of the rule *)
(* that returned it for the prim at the issue's path, so that each issue   *)
(* belongs to exactly one registered rule.                                 *)
(***************************************************************************)
C24_RuleIdsAttribute ==
    /\ \A i, j \in 1..Len(Rules) : RuleId(Rules[i]) = RuleId(Rules[j]) => i = j
    /\ \A k \in 1..Len(all_issues) :
           /\ Cardinality(RulesWithId(all_issues[k].rule_id)) = 1
           /\ \A r \in RulesWithId(all_issues[k].rule_id) :
                  /\ In(all_issues[k], RuleIssues[all_issues[k].path][r])
                  /\ In(<<all_issues[k].path, all_issues[k].rule_id>>, rule_calls)
           /\ \A r \in 1..Len(Rules) :
                  In(all_issues[k], RuleIssues[all_issues[k].path][r])
                      => r \in RulesWithId(all_issues[k].rule_id)

\* the list holds issues of the health, the namespace and the entity type rule
C24_Witness ==
    /\ op = "validate_stage"
    /\ \E k \in 1..Len(all_issues) : all_issues[k].rule_id = "HEALTH_COMP_001"
    /\ \E k \in 1..Len(all_issues) : all_issues[k].rule_id = "SCHEMA_NAMESPACE_001"
    /\ \E k \in 1..Len(all_issues) : all_issues[k].rule_id = "ENTITY_TYPE_001"

\* the value is a list of issues of the called rule about the node it was given
IssueList(issues) ==
    /\ DOMAIN issues = 1..Len(issues)
    /\ \A i \in 1..Len(issues) :
           /\ DOMAIN issues[i] = {"path", "message", "severity", "rule_id", "fix_description"}
           /\ issues[i].path = args.path
           /\ issues[i].severity \in Severities
           /\ issues[i].rule_id = RuleId(op)
           /\ Len(issues[i].message) >= 1
           /\ Len(issues[i].fix_description) >= 1

\* every required attribute the node lacks and every value out of its range has its issue
FindingsReported ==
    /\ Called("Health") /\ TagOn("SparkleHealthAPI") =>
           /\ \A name \in HealthNames :
                  /\ ~Carries(name) => SaidMissing(name) # {}
                  /\ Holds(name) /\ AttrOf(name).num < 0 => BelowMinimum(name) # {}
           /\ (/\ \A name \in HealthNames : Holds(name)
               /\ AttrOf("sparkle:health:current").num > AttrOf("sparkle:health:maximum").num)
                  => SaidExceeds # {}
    /\ Called("Movement") /\ TagOn("SparkleMovementAPI") =>
           /\ ~Carries("sparkle:movement:speed") => SpeedIssues(ERROR) # {}
           /\ Holds("sparkle:movement:speed") /\ AttrOf("sparkle:movement:speed").num < 0
                  => SpeedIssues(ERROR) # {}
           /\ Holds("sparkle:movement:speed") /\ AttrOf("sparkle:movement:speed").num > 100
                  => SpeedIssues(WARNING) # {}
           /\ ~Carries("sparkle:movement:pattern") => PatternIssues(WARNING) # {}
           /\ (/\ Holds("sparkle:movement:pattern")
               /\ AttrOf("sparkle:movement:pattern").tok \notin
                      {"direct", "patrol", "wander", "charge", "flee", "stationary"})
                  => PatternIssues(ERROR) # {}
    /\ Called("Ai") /\ TagOn("SparkleAIAPI") =>
           /\ ~Carries("sparkle:ai:behavior") => BehaviorIssues # {}
           /\ (/\ Holds("sparkle:ai:behavior")
               /\ AttrOf("sparkle:ai:behavior").tok \notin
                      {"passive", "defensive", "aggressive", "neutral", "flee"})
                  => BehaviorIssues # {}
           /\ (/\ Holds("sparkle:ai:detectionRadius")
               /\ AttrOf("sparkle:ai:detectionRadius").num < 0)
                  => RadiusIssues # {}
    /\ (/\ Called("EntityType") /\ args.typeName = "SparklePickup"
        /\ ~Carries("sparkle:entity:id"))
           => ret # <<>>

(***************************************************************************)
(* C25: each of the six rules gives a result for every node, whatever      *)
(* attributes, relationships, tags and values the node has: the call       *)
(* returns, what it returns is a list of issues (it may be empty), and a   *)
(* required attribute that is absent or a value that is out of range       *)
(* always has its issue in the list.                                       *)
(***************************************************************************)
C25_RulesTotal ==
    /\ pc = "rules" => \A r \in 1..Len(Rules) : ENABLED validate(Rules[r])
    /\ pc = "returned" => IssueList(ret) /\ FindingsReported

\* a node with the health tag and no attribute at all: the two absences are two issues
C25_Witness ==
    /\ Called("Health")
    /\ TagOn("SparkleHealthAPI")
    /\ args.attrs = <<>>
    /\ IssueList(ret)
    /\ Len(ret) = 2

(***************************************************************************)
(* C26: no registered rule returns an issue of severity INFO, so after any *)
(* sequence of validate_stage calls the INFO counter is 0, every issue of  *)
(* the accumulated list is an ERROR or a WARNING, and the number of issues *)
(* is the ERROR counter plus the WARNING counter.  The first part speaks   *)
(* of one rule call, the second of the validator.                          *)
(***************************************************************************)
C26_NoInfo ==
    /\ pc = "returned" => \A i \in 1..Len(ret) : ret[i].severity \in {ERROR, WARNING}
    /\ pc = "library" =>
           /\ issue_counts[INFO] = 0
           /\ \A i \in 1..Len(all_issues) : all_issues[i].severity \in {ERROR, WARNING}
           /\ Len(all_issues) = issue_counts[ERROR] + issue_counts[WARNING]
           /\ op = "get_summary" => ret[6] = "0"
           /\ op = "generate_report" =>
                  /\ ParsedReport.summary.info = 0
                  /\ ParsedReport.summary.total
                         = ParsedReport.summary.errors + ParsedReport.summary.warnings

\* two runs, the last with errors and warnings, and the summary still says 0 info
C26_Witness ==
    /\ op = "get_summary"
    /\ prior.runs = 2
    /\ issue_counts[ERROR] > 0
    /\ issue_counts[WARNING] > 0
    /\ issue_counts[INFO] = 0
    /\ ret[6] = "0"

Queries == {"get_summary", "print_issues", "has_errors", "generate_report"}

\* what the query of the state returned, printed and wrote is what it gives on the
\* validator as it is now
AnswersCurrent ==
    /\ op = "get_summary" => ret = GetSummary(Validator)
    /\ op = "has_errors" => ret = HasErrors(Validator)
    /\ op = "print_issues" => stdout = PrintIssues(Validator, args)
    /\ op = "generate_report" => written = GenerateReport(Validator, args)

\* a query step leaves the issue list, the counters and the stage as they were, and a step
\* that validates the stage of the run before leaves the stage as it was
QueryFrame ==
    /\ op' \in Queries =>
           /\ all_issues' = all_issues
           /\ issue_counts' = issue_counts
           /\ stage' = stage
    /\ (op' = "validate_stage" /\ prior'.same) => stage' = stage

InApp == pc \in {"setup", "running", "closed"}

\* the demo objects on which cleanup has not been called
Live == {id \in 1..Len(app.instances) : app.instances[id].cleanups = 0}

\* the place of a call on a demo object in the log, 0 if it was not made
LogIndex(call, id) ==
    IF \E k \in 1..Len(app.log) : app.log[k] = [call |-> call, demo |-> id]
    THEN CHOOSE k \in 1..Len(app.log) : app.log[k] = [call |-> call, demo |-> id]
    ELSE 0

\* no demo object is in use besides the current one, which run() leaves in place when it ends
OneCurrent ==
    /\ Live \subseteq {id \in 1..Len(app.instances) : app.current_demo = Some(id)}
    /\ pc # "closed" /\ app.current_demo # None => app.current_demo[1] \in Live
    /\ app.current_demo # None <=> app.instances # <<>>
    /\ app.current_demo # None => app.current_demo[1] = Len(app.instances)

\* every demo object is created after the cleanup of the one before it and initialized
\* right after its creation
CleanupFirst ==
    \A id \in 1..Len(app.instances) :
        /\ LogIndex("__init__", id) > 0
        /\ LogIndex("initialize", id) = LogIndex("__init__", id) + 1
        /\ app.instances[id].initialized
        /\ id > 1 => /\ LogIndex("cleanup", id - 1) > 0
                     /\ LogIndex("cleanup", id - 1) < LogIndex("__init__", id)

\* the calls of cleanup on a demo object
Cleanups(id) == {k \in 1..Len(app.log) : app.log[k] = [call |-> "cleanup", demo |-> id]}

CleanedOnce ==
    pc = "closed" =>
        \A id \in 1..Len(app.instances) :
            app.instances[id].cleanups = 1 /\ Cardinality(Cleanups(id)) = 1

\* a selection by a name that is not registered leaves the application as it was
UnknownNameIgnored ==
    (op' = "select_demo" /\ ~Registered(app, args'[1])) =>
        /\ app' = app
        /\ stdout' = <<<<"Demo '", args'[1], "' not found">>>>

(***************************************************************************)
(* C28: at most one demo object is in use at any time; select_demo with a  *)
(* name that is not registered changes neither current_demo nor            *)
(* current_demo_name and calls no cleanup; select_demo with a registered   *)
(* name calls cleanup on the previous demo before the new one is created   *)
(* and initialized; and when run() ends, cleanup has been called exactly   *)
(* once on every demo object that was ever current.                        *)
(***************************************************************************)
C28_DemoLifecycle ==
    /\ [](InApp => OneCurrent /\ CleanupFirst /\ CleanedOnce)
    /\ [][UnknownNameIgnored]_vars

\* run() has ended after two demos were registered and at least two demo objects, a
\* PayloadsDemo among them, were current in turn
C28_Witness ==
    /\ pc = "closed"
    /\ Len(app.instances) >= 2
    /\ \E id \in 1..Len(app.instances) : app.instances[id].demo_class = "PayloadsDemo"
    /\ Len(app.demos) = 2

(***************************************************************************)
(* The level of detail of the VariantsDemo.                                *)
(***************************************************************************)
\* current_lod names a level of detail and is the variant selected on the enemy prim
LodInSync ==
    /\ demo.current_lod \in {"high", "medium", "low"}
    /\ demo.enemy_prim # None
    /\ demo.enemy_prim[1].selection = demo.current_lod

\* what an update step does to current_lod, by the thresholds and the switch it finds
UpdateChoosesLod ==
    op' = "update" =>
        LET distance == args'[1]
            thresholds == demo.lod_thresholds
        IN  /\ demo.auto_lod /\ distance < thresholds.high => demo'.current_lod = "high"
            /\ demo.auto_lod /\ distance >= thresholds.high /\ distance < thresholds.medium
                   => demo'.current_lod = "medium"
            /\ demo.auto_lod /\ distance >= thresholds.high /\ distance >= thresholds.medium
                   => demo'.current_lod = "low"
            /\ ~demo.auto_lod => demo'.current_lod = demo.current_lod
            /\ demo'.camera_distance = distance

(***************************************************************************)
(* C29: after initialize and any sequence of update and render_ui steps,   *)
(* current_lod is one of high, medium and low and is the complexityLOD     *)
(* variant selected on the enemy prim; with auto LOD on, update sets it to *)
(* high when the camera distance is below the high threshold, else to      *)
(* medium when it is below the medium threshold, else to low; with auto    *)
(* LOD off, update does not change it.                                     *)
(***************************************************************************)
C29_LodInSync ==
    /\ [](pc = "initialized" => LodInSync)
    /\ [][UpdateChoosesLod]_vars

\* auto LOD was switched off, medium was picked by its button, and an update with the
\* camera next to the enemy has left it in place
C29_Witness ==
    /\ pc = "initialized"
    /\ op = "update"
    /\ ~demo.auto_lod
    /\ demo.camera_distance = 0
    /\ demo.current_lod = "medium"
    /\ demo.enemy_prim[1].selection = "medium"

(***************************************************************************)
(* Dragging a slider.                                                      *)
(***************************************************************************)
\* the slider call with an id
SliderOf(id_str) == Sliders[CHOOSE k \in 1..Len(Sliders) : Sliders[k].id_str = id_str]

\* the button went down on the knob of a slider in an earlier frame and has been down since
Dragged(id_str) == prior.grabbed = Some(id_str) /\ prior.held >= 1

\* the slider is the active item and the dragging slider, and its value is where the mouse is
Follows(id_str) ==
    /\ ui.active_item = Some(SliderId(id_str))
    /\ ui.dragging_slider = Some(SliderId(id_str))
    /\ id_str \in DOMAIN ui.slider_values
    /\ ui.slider_values[id_str] = ValueAt(SliderOf(id_str), ui.mouse_pos[1])

(***************************************************************************)
(* C30: when the left button goes down in a frame with the mouse over the  *)
(* knob of a slider and is held down, the slider is the active item and    *)
(* the dragging slider and its stored value is the one at the mouse's x,   *)
(* clamped to the slider's range, in each following frame; no slider is    *)
(* dragged after the frame in which the button is released.                *)
(***************************************************************************)
C30_SliderDrag ==
    pc = "frames" =>
        /\ \A k \in 1..Len(Sliders) : Dragged(Sliders[k].id_str) => Follows(Sliders[k].id_str)
        /\ (op = "_render_ui" /\ args.released) => ui.dragging_slider = None

\* the button went down on the knob of the first slider and the mouse has been moved to
\* the right with the button held
C30_Witness ==
    /\ pc = "frames"
    /\ Dragged("threshold_high")
    /\ args.down
    /\ ui.mouse_pos = <<7, 10>>

(***************************************************************************)
(* What the UI does instead: no item is ever active and no slider is ever  *)
(* dragged, so every slider keeps the value it was first given.            *)
(***************************************************************************)
NeverDragged ==
    pc = "frames" =>
        /\ ui.active_item = None
        /\ ui.dragging_slider = None
        /\ \A k \in 1..Len(Sliders) :
               Sliders[k].id_str \in DOMAIN ui.slider_values =>
                   ui.slider_values[Sliders[k].id_str]
                       = StoredValue(NewUI, Sliders[k])

====
